---- MODULE Spec2Model ----
(***************************************************************************)
(* Model of the NETDUMP client (src/src/main.rs): one process run = one    *)
(* TCP session = one operation.  The client is sequential; the peer, the   *)
(* local file system and the process's stdout and stderr are the           *)
(* environment and are modelled by the nondeterministic outcome of every   *)
(* read, write, print and open the client does.                            *)
(*                                                                         *)
(* Numbers wider than 31 bits (u32 command/status codes, the u64 game      *)
(* length and counters) are kept exactly, as sequences of 16-bit limbs,    *)
(* most significant limb first.                                            *)
(***************************************************************************)
EXTENDS Integers, Sequences, FiniteSets, TLC

\* ------------------------------------------------------------------------
\* Bounds of the model (not program constants)
\* ------------------------------------------------------------------------

\* Largest number of full IO_SIZE blocks of a game payload that goes to a file,
\* explored from the start of a session (the declared length
\* MaxBlocks * IO_SIZE + 7).
MaxBlocks == 10

\* In the receive-loop specification: largest number of full blocks that are
\* still to be received in an initial (mid-loop) state.
MaxTailBlocks == 3

\* In the receive-loop specification: most bytes still to be received in an
\* initial (mid-loop) state of a transfer to stdout.
MaxLineLeft == 1

\* ------------------------------------------------------------------------
\* Program constants
\* ------------------------------------------------------------------------

PROTOCOL_VERSION == 1

\* "NETDUMP" as bytes
MAGIC_NUMBER == <<78, 69, 84, 68, 85, 77, 80>>

IO_SIZE == 32768

\* capacity of the buffer of BufWriter::new (DEFAULT_BUF_SIZE of std::io)
BUF_CAPACITY == 8192

\* capacity of the line buffer of std::io::stdout()
STDOUT_CAPACITY == 1024

\* size of the BCA payload: vec![0u8; 64]
BCA_SIZE == 64

\* ------------------------------------------------------------------------
\* Exact arithmetic on wide naturals: 5 limbs of 16 bits, big-endian.
\* A u64 is a wide natural whose first limb is 0.
\* ------------------------------------------------------------------------

LimbBase == 2^16
Limbs == 1 .. 5

W(n) == <<0, 0, 0, n \div LimbBase, n % LimbBase>>

RECURSIVE WCarry(_, _, _)
WCarry(a, b, i) ==
    IF i > 5 THEN 0 ELSE (a[i] + b[i] + WCarry(a, b, i + 1)) \div LimbBase

WAdd(a, b) == [i \in Limbs |-> (a[i] + b[i] + WCarry(a, b, i + 1)) % LimbBase]

RECURSIVE WBorrow(_, _, _)
WBorrow(a, b, i) ==
    IF i > 5 THEN 0
    ELSE IF a[i] - b[i] - WBorrow(a, b, i + 1) < 0 THEN 1 ELSE 0

\* a - b for a >= b
WSub(a, b) == [i \in Limbs |-> (a[i] - b[i] - WBorrow(a, b, i + 1)) % LimbBase]

WLess(a, b) == \E i \in Limbs : a[i] < b[i] /\ \A j \in 1 .. (i - 1) : a[j] = b[j]

WLeq(a, b) == a = b \/ WLess(a, b)

\* the value of a wide natural that fits 31 bits
WInt(a) == a[4] * LimbBase + a[5]

WSmall(a) == a[1] = 0 /\ a[2] = 0 /\ a[3] = 0 /\ a[4] < 2^15

\* reduction modulo 2^64: what a u64 register keeps of a sum
WrapU64(a) == [a EXCEPT ![1] = 0]

U64_MAX == <<0, LimbBase - 1, LimbBase - 1, LimbBase - 1, LimbBase - 1>>

\* ------------------------------------------------------------------------
\* Big-endian byte encodings
\* ------------------------------------------------------------------------

Byte == 0 .. 255

\* write_be_to_u32 of a value given as two 16-bit halves <<hi, lo>>
BE32(v) == <<v[1] \div 256, v[1] % 256, v[2] \div 256, v[2] % 256>>

\* read_be_to_u32: four bytes, most significant first, to <<hi, lo>>
read_be_to_u32(b) == <<b[1] * 256 + b[2], b[3] * 256 + b[4]>>

\* read_be_to_u64: eight bytes, most significant first, to a wide natural
read_be_to_u64(b) ==
    <<0, b[1] * 256 + b[2], b[3] * 256 + b[4], b[5] * 256 + b[6], b[7] * 256 + b[8]>>

\* the eight big-endian bytes of a u64 (what a peer puts on the wire)
BE64(w) ==
    <<w[2] \div 256, w[2] % 256, w[3] \div 256, w[3] % 256,
      w[4] \div 256, w[4] % 256, w[5] \div 256, w[5] % 256>>

U32(n) == <<n \div LimbBase, n % LimbBase>>

\* ------------------------------------------------------------------------
\* enum Commands, enum CommandAnswers, enum DiscTypes
\* ------------------------------------------------------------------------

Commands ==
    [ Disconnect  |-> <<65535, 65535>>,
      ExitProgram |-> <<65535, 65534>>,
      Shutdown    |-> <<65535, 65533>>,
      EjectDisc   |-> U32(1),
      GetDiscInfo |-> U32(2),
      DumpBCA     |-> U32(3),
      DumpGame    |-> U32(4) ]

CommandAnswers ==
    [ ProtocolError   |-> <<65535, 65535>>,
      NoDisc          |-> <<65535, 65534>>,
      CouldNotEject   |-> <<65535, 65533>>,
      UnknownDiscType |-> <<65535, 65532>>,
      OK              |-> U32(0),
      DiscInfo        |-> U32(1),
      BCA             |-> U32(2),
      Game            |-> U32(3) ]

AnswerNames == DOMAIN CommandAnswers

\* a conversion that takes every value outside the enumeration for OK
CommandAnswers_from_u32_Unchecked(v) ==
    IF \E a \in AnswerNames : CommandAnswers[a] = v
    THEN CHOOSE a \in AnswerNames : CommandAnswers[a] = v
    ELSE "OK"

\* CommandAnswers::from_u32 (derive(FromPrimitive)): Some(variant) or None
CommandAnswers_from_u32(v) ==
    IF \E a \in AnswerNames : CommandAnswers[a] = v
    THEN CHOOSE a \in AnswerNames : CommandAnswers[a] = v
    ELSE "None"

\* a conversion that falls back to the first variant
DiscTypes_from_u8_Default(b) ==
    CASE b = 1 -> "WiiSingleSided"
      [] b = 2 -> "WiiDoubleSided"
      [] OTHER -> "GC"

\* DiscTypes::from_u8 (derive(FromPrimitive)): Some(variant) or None
DiscTypes_from_u8(b) ==
    CASE b = 0 -> "GC"
      [] b = 1 -> "WiiSingleSided"
      [] b = 2 -> "WiiDoubleSided"
      [] OTHER -> "None"

\* a check that accepts any bytes
check_magic_number_AcceptAll(got, expected) == Len(got) = Len(expected)

\* a check that leaves out the last byte
check_magic_number_IgnoreLast(got, expected) ==
    SubSeq(got, 1, Len(got) - 1) = SubSeq(expected, 1, Len(expected) - 1)

\* check_magic_number(expected) of ez_io::MagicNumberCheck, after the bytes
\* were read: Ok exactly when they equal the expected bytes
check_magic_number(got, expected) == got = expected

\* transmute::<u32, [u8; 4]>(PROTOCOL_VERSION.to_be()): the in-memory bytes of
\* the value converted to big-endian are its big-endian bytes on either host
\* byte order
version_bytes == BE32(U32(PROTOCOL_VERSION))

\* a packet without the version field
Packet_NoVersion(command) == MAGIC_NUMBER \o BE32(Commands[command])

\* send_command!: the 15-byte packet magic + version + command
Packet(command) == MAGIC_NUMBER \o BE32(U32(PROTOCOL_VERSION)) \o BE32(Commands[command])

\* match opts.process: the command each operation sends first
CommandOf(p) ==
    CASE p = "ExitProgram" -> "ExitProgram"
      [] p = "Shutdown"    -> "Shutdown"
      [] p = "Info"        -> "GetDiscInfo"
      [] p = "BCA"         -> "DumpBCA"
      [] p = "Game"        -> "DumpGame"
      [] p = "EjectDisc"   -> "EjectDisc"

\* enum Process
Process == {"Full", "Game", "BCA", "Info", "EjectDisc", "ExitProgram", "Shutdown"}

\* ------------------------------------------------------------------------
\* State
\* ------------------------------------------------------------------------

VARIABLES
    op,            \* opts.process
    outFile,       \* output goes to a file (Info: filepath is Some; BCA, Game: !stdout)
    pc,            \* position of the client in main
    blocked,       \* the client sits in a call that never returns: a read the peer
                   \* does not complete, or a write to stdout or stderr that nobody
                   \* takes (pc tells which)
    panic,         \* "" or the reason the process panicked
    closed,        \* the TcpStream was dropped
    sent,          \* packets the client handed to stream.write_all, in order
    rx,            \* reads the client requested from the stream, in order (run-length coded)
    rxHdr,         \* magic and version bytes of the response being read
    answer,        \* status code of the reply to the command (<<>>: not read)
    danswer,       \* status code of the reply to Disconnect (<<>>: not read)
    data_length,   \* Game: declared length
    data_received, \* Game: counter of the receive loop
    consumed,      \* payload bytes taken from the stream after the status code
    data,          \* the block last read: [off, len] in the payload stream
    disc,          \* Info: the fields decoded so far
    sink,          \* [kind, data, stored, torn]: the output writer, what it took
                   \* (into its buffer or on to the destination), what reached the
                   \* file or stdout for certain, and the bytes of a write that
                   \* failed or never returned: any number of them, short of all,
                   \* reached it too.  Bytes taken and not stored are in the buffer.
    log            \* diagnostic lines printed in full

vars == <<op, outFile, pc, blocked, panic, closed, sent, rx, rxHdr, answer, danswer,
          data_length, data_received, consumed, data, disc, sink, log>>

NoData == [off |-> W(0), len |-> W(0)]
NoDiscInfo == [disc_type_u8 |-> 0 - 1, game_name |-> <<>>, internal_name |-> <<>>, disc_type |-> "None"]
NoSink == [kind |-> "none", data |-> <<>>, stored |-> <<>>, torn |-> <<>>]

\* opts after Opts::parse(): every operation; Info with and without -o;
\* BCA and Game with and without --stdout
Init ==
    /\ op \in Process
    /\ outFile \in (IF op \in {"Info", "BCA", "Game"} THEN BOOLEAN ELSE {FALSE})
    /\ pc = "connect"
    /\ blocked = FALSE
    /\ panic = ""
    /\ closed = FALSE
    /\ sent = <<>>
    /\ rx = <<>>
    /\ rxHdr = <<>>
    /\ answer = <<>>
    /\ danswer = <<>>
    /\ data_length = W(0)
    /\ data_received = W(0)
    /\ consumed = W(0)
    /\ data = NoData
    /\ disc = NoDiscInfo
    /\ sink = NoSink
    /\ log = <<>>

\* ------------------------------------------------------------------------
\* Helpers shared by the steps
\* ------------------------------------------------------------------------

\* the read log with one more read of n bytes requested at position `what`;
\* equal consecutive reads are counted, not repeated
LogRead(l, what, n, ok) ==
    IF l # <<>> /\ l[Len(l)].what = what /\ l[Len(l)].n = n /\ l[Len(l)].ok = ok
    THEN [l EXCEPT ![Len(l)].times = WAdd(@, W(1))]
    ELSE Append(l, [what |-> what, n |-> n, ok |-> ok, times |-> W(1)])

\* a client that goes on after a call that never returned
Running_IgnoreStall == pc \notin {"done", "panicked"}

\* the process takes steps: it has not exited and is not waiting in a call
Running == pc \notin {"done", "panicked"} /\ ~blocked

\* the call returned and main goes on at `next`
Goto(next) ==
    /\ pc' = next
    /\ UNCHANGED <<blocked, panic, closed>>

\* the call made at `at` never returns: the process stays alive in it
Stall(at) ==
    /\ pc' = at
    /\ blocked' = TRUE
    /\ UNCHANGED <<panic, closed>>

\* A panic (unwrap, expect, unimplemented!, a failed println!): the panic
\* message is written to stderr (a failure of that write is ignored, a stderr
\* that nobody takes keeps the process in it), then the stack unwinds, which
\* drops the stream when there is one, and the process goes to its exit.
Abort(why, stream) ==
    \/ /\ pc' = "exit"
       /\ panic' = why
       /\ closed' = stream
       /\ UNCHANGED blocked
    \/ /\ pc' = "panic_message"
       /\ panic' = why
       /\ blocked' = TRUE
       /\ UNCHANGED closed

\* a panic while the stream is open
Panic(why) == Abort(why, TRUE)

\* an exit status that reflects a domain failure answered by the peer
ExitStatus_DomainFailure ==
    CASE pc = "done" ->
            IF answer \in {<<65535, 65534>>, <<65535, 65533>>, <<65535, 65532>>} THEN 1 ELSE 0
      [] pc = "panicked" -> 101
      [] OTHER -> 0 - 1

\* process exit status (-1: the process has not exited)
ExitStatus == CASE pc = "done" -> 0 [] pc = "panicked" -> 101 [] OTHER -> 0 - 1

\* A read of n bytes that does not complete: the stream ends or fails first
\* (read_exact returns Err, unwrap panics), or the peer stays silent and the
\* client waits in the read (no timeout is set on the stream).
ReadFault(n) ==
    /\ rx' = LogRead(rx, pc, n, FALSE)
    /\ \/ Panic("read")
       \/ Stall(pc)

\* ------------------------------------------------------------------------
\* main: connect
\* ------------------------------------------------------------------------

connect ==
    /\ pc = "connect"
    /\ Running
    /\ \/ Goto("dispatch")
       \/ Abort("Failed to connect to the Wii", FALSE)
    /\ UNCHANGED <<op, outFile, sent, rx, rxHdr, answer, danswer, data_length,
                   data_received, consumed, data, disc, sink, log>>

\* send_command!: write_all of the packet; unwrap panics when the write fails
send_command(at, command, next) ==
    /\ pc = at
    /\ Running
    /\ sent' = Append(sent, Packet(command))
    /\ rxHdr' = <<>>
    /\ \/ Goto(next)
       \/ Panic("write")
    /\ UNCHANGED <<op, outFile, rx, answer, danswer, data_length,
                   data_received, consumed, data, disc, sink, log>>

\* a Full arm that does nothing
dispatch_FullNoOp ==
    \/ /\ pc = "dispatch"
       /\ Running
       /\ op = "Full"
       /\ Goto("return")
       /\ UNCHANGED <<op, outFile, sent, rx, rxHdr, answer, danswer,
                      data_length, data_received, consumed, data, disc, sink, log>>
    \/ /\ op # "Full"
       /\ send_command("dispatch", CommandOf(op), "magic")

\* match opts.process: Full is unimplemented!(), every other arm starts with
\* send_command!
dispatch ==
    \/ /\ pc = "dispatch"
       /\ Running
       /\ op = "Full"
       /\ Panic("not implemented")
       /\ UNCHANGED <<op, outFile, sent, rx, rxHdr, answer, danswer, data_length,
                      data_received, consumed, data, disc, sink, log>>
    \/ /\ op # "Full"
       /\ send_command("dispatch", CommandOf(op), "magic")

\* ------------------------------------------------------------------------
\* check_magic_number_protocol_version!
\* ------------------------------------------------------------------------

\* first half: the 7 magic bytes
check_magic(at, next, inputs) ==
    /\ pc = at
    /\ Running
    /\ \/ \E m \in inputs :
            /\ rx' = LogRead(rx, pc, Len(MAGIC_NUMBER), TRUE)
            /\ rxHdr' = m
            /\ IF check_magic_number(m, MAGIC_NUMBER)
               THEN Goto(next)
               ELSE Panic("WrongMagicNumber")
       \/ ReadFault(Len(MAGIC_NUMBER)) /\ UNCHANGED rxHdr
    /\ UNCHANGED <<op, outFile, sent, answer, danswer, data_length,
                   data_received, consumed, data, disc, sink, log>>

\* second half: the 4 version bytes
check_version(at, next, inputs) ==
    /\ pc = at
    /\ Running
    /\ \/ \E v \in inputs :
            /\ rx' = LogRead(rx, pc, Len(version_bytes), TRUE)
            /\ rxHdr' = rxHdr \o v
            /\ IF check_magic_number(v, version_bytes)
               THEN Goto(next)
               ELSE Panic("WrongMagicNumber")
       \/ ReadFault(Len(version_bytes)) /\ UNCHANGED rxHdr
    /\ UNCHANGED <<op, outFile, sent, answer, danswer, data_length,
                   data_received, consumed, data, disc, sink, log>>

\* ------------------------------------------------------------------------
\* The status code of the reply to the command, and the match on it
\* ------------------------------------------------------------------------

\* the arm of each operation's match that a decoded answer selects: the
\* diagnostic it prints ("" for none)
ArmMessage(p, a) ==
    CASE p \in {"ExitProgram", "Shutdown"} ->
            IF a = "OK" THEN "" ELSE "Weird response from Wii"
      [] p = "EjectDisc" ->
            CASE a = "OK" -> ""
              [] a = "NoDisc" -> "No Disc in drive"
              [] a = "CouldNotEject" -> "Couldn't Eject Disc"
              [] a = "ProtocolError" -> "Unknown Protocol-related error, can't proceed"
              [] OTHER -> "Weird response from Wii"
      [] p = "Info" ->
            CASE a = "DiscInfo" -> ""
              [] a = "ProtocolError" -> "Unknown Protocol-related error, can't proceed"
              [] a = "NoDisc" -> "No Disc in Drive, can't proceed"
              [] a = "UnknownDiscType" -> "Unknown Disc Type, can't proceed"
              [] OTHER -> "Weird response from Wii, disconnecting"
      [] p = "BCA" ->
            CASE a = "BCA" -> ""
              [] a = "ProtocolError" -> "Unknown Protocol-related error, can't proceed"
              [] a = "NoDisc" -> "No Disc in Drive, can't proceed"
              [] a = "UnknownDiscType" -> "Unknown Disc Type, can't dump"
              [] OTHER -> "Weird response from Wii, disconnecting"
      [] p = "Game" ->
            CASE a = "Game" -> ""
              [] a = "ProtocolError" -> "Unknown Protocol-related error, can't proceed"
              [] a = "NoDisc" -> "No Disc in Drive, can't proceed"
              [] a = "UnknownDiscType" -> "Unknown Disc Type, can't dump"
              [] OTHER -> "Weird response from Wii, disconnecting"

\* NoDisc taken for a success status in the Info arm
ArmNext_PayloadOnNoDisc(p, a) ==
    CASE p = "Info" /\ a \in {"DiscInfo", "NoDisc"} -> "info_type"
      [] p = "BCA" /\ a = "BCA" -> "bca_open"
      [] p = "Game" /\ a = "Game" -> "game_open"
      [] OTHER -> "after_match"

\* the payload chosen by the status alone, whatever command was sent
ArmNext_ByStatusOnly(p, a) ==
    CASE a = "DiscInfo" -> "info_type"
      [] a = "BCA" -> "bca_open"
      [] a = "Game" -> "game_open"
      [] OTHER -> "after_match"

\* where the selected arm continues: into the payload of the matching success
\* status, otherwise past the match
ArmNext(p, a) ==
    CASE p = "Info" /\ a = "DiscInfo" -> "info_type"
      [] p = "BCA" /\ a = "BCA" -> "bca_open"
      [] p = "Game" /\ a = "Game" -> "game_open"
      [] OTHER -> "after_match"

\* send_disconnect! after every operation
AfterMatch_AlwaysDisconnect(p) == "d_send"

\* what follows an operation's match: send_disconnect! in the Info, BCA, Game
\* and EjectDisc arms, the end of main in the ExitProgram and Shutdown arms
AfterMatch(p) == IF p \in {"ExitProgram", "Shutdown"} THEN "return" ELSE "d_send"

Resolve(p, next) == IF next = "after_match" THEN AfterMatch(p) ELSE next

\* the stream a diagnostic goes to: println! in the NoDisc and CouldNotEject
\* arms of EjectDisc, eprintln! in every other arm
ArmStream(p, a) ==
    IF p = "EjectDisc" /\ a \in {"NoDisc", "CouldNotEject"} THEN "stdout" ELSE "stderr"

\* the panic of a print macro whose write failed
PrintPanic(stream) ==
    IF stream = "stdout" THEN "failed printing to stdout" ELSE "failed printing to stderr"

\* a print that always succeeds
Say_Infallible(msg, stream, at, next) ==
    /\ log' = IF msg = "" THEN log ELSE Append(log, msg)
    /\ Goto(next)

\* println! / eprintln! of a diagnostic line (msg = "": the arm prints
\* nothing).  The line ends with a newline, so it goes through stdout's line
\* buffer to the stream at once (stderr has no buffer): it is written, or the
\* write fails and the macro panics, or nobody takes it and the macro waits.
Say(msg, stream, at, next) ==
    IF msg = ""
    THEN /\ Goto(next)
         /\ UNCHANGED log
    ELSE \/ /\ log' = Append(log, msg)
            /\ Goto(next)
         \/ /\ Panic(PrintPanic(stream))
            /\ UNCHANGED log
         \/ /\ Stall(at)
            /\ UNCHANGED log

\* match CommandAnswers::from_u32(stream.read_be_to_u32().unwrap()) { ... }:
\* the status is read and the arm it selects prints its diagnostic
match_answer(inputs) ==
    /\ pc = "status"
    /\ Running
    /\ \/ \E b \in inputs :
            LET v == read_be_to_u32(b)
                a == CommandAnswers_from_u32(v)
            IN  /\ rx' = LogRead(rx, pc, Len(b), TRUE)
                /\ answer' = v
                /\ Say(ArmMessage(op, a), ArmStream(op, a), "say", Resolve(op, ArmNext(op, a)))
       \/ ReadFault(4) /\ UNCHANGED <<answer, log>>
    /\ UNCHANGED <<op, outFile, sent, rxHdr, danswer, data_length,
                   data_received, consumed, data, disc, sink>>

\* ------------------------------------------------------------------------
\* Info arm: the DiscInfo payload
\* ------------------------------------------------------------------------

Cont(b) == b \in 128 .. 191

\* the length of the character a byte starts (0: the byte starts none)
Utf8Width(b) ==
    CASE b < 128 -> 1
      [] b \in 194 .. 223 -> 2
      [] b \in 224 .. 239 -> 3
      [] b \in 240 .. 244 -> 4
      [] OTHER -> 0

\* the bytes allowed right after a leading byte
Utf8Second(b) ==
    CASE b = 224 -> 160 .. 191
      [] b = 237 -> 128 .. 159
      [] b = 240 -> 144 .. 191
      [] b = 244 -> 128 .. 143
      [] OTHER -> 128 .. 191

\* a conversion that accepts any bytes (as String::from_utf8_lossy would)
from_utf8_ok_Lossy(s) == Len(s) >= 0

\* String::from_utf8(..) is Ok: every byte that is no continuation byte starts
\* a complete well-formed character, and every continuation byte belongs to
\* the character started by the nearest byte before it that is none
from_utf8_ok(s) ==
    \A i \in 1 .. Len(s) :
        IF Cont(s[i])
        THEN \E k \in 1 .. 3 :
                /\ i - k >= 1
                /\ Utf8Width(s[i - k]) > k
                /\ \A m \in 1 .. (k - 1) : Cont(s[i - m])
        ELSE LET w == Utf8Width(s[i]) IN
                /\ w >= 1
                /\ i + w - 1 <= Len(s)
                /\ \A m \in 1 .. (w - 1) : Cont(s[i + m])
                /\ w > 1 => s[i + 1] \in Utf8Second(s[i])

\* trim_end_matches(char::from(0))
trim_end_matches_nul(s) ==
    LET keep == {i \in 1 .. Len(s) : s[i] # 0} IN
    IF keep = {} THEN <<>>
    ELSE SubSeq(s, 1, CHOOSE i \in keep : \A j \in keep : j <= i)

\* a fixed-width field: the text followed by NUL bytes
Pad(p, n) == p \o [i \in 1 .. (n - Len(p)) |-> 0]

\* texts the peer puts in a name field: empty, "MARIO", a text with an
\* embedded NUL, a byte that is no UTF-8, a two-byte character
NameTexts == {<<>>, <<77, 65, 82, 73, 79>>, <<77, 0, 65>>, <<255>>, <<195, 169>>}

TypeInputs == {0, 1, 2, 3, 255}

\* let disc_type_u8 = stream.read_to_u8().unwrap();
info_type(inputs) ==
    /\ pc = "info_type"
    /\ Running
    /\ \/ \E b \in inputs :
            /\ rx' = LogRead(rx, pc, 1, TRUE)
            /\ disc' = [disc EXCEPT !.disc_type_u8 = b]
            /\ consumed' = WAdd(consumed, W(1))
            /\ Goto("info_game_name")
       \/ ReadFault(1) /\ UNCHANGED <<disc, consumed>>
    /\ UNCHANGED <<op, outFile, sent, rxHdr, answer, danswer, data_length,
                   data_received, data, sink, log>>

\* read_exact of a name field of n bytes, String::from_utf8(..).unwrap(),
\* trim_end_matches(NUL)
info_name(at, n, field, next) ==
    /\ pc = at
    /\ Running
    /\ \/ \E t \in NameTexts :
            LET bytes == Pad(t, n) IN
            /\ rx' = LogRead(rx, pc, n, TRUE)
            /\ consumed' = WAdd(consumed, W(n))
            /\ IF from_utf8_ok(bytes)
               THEN /\ disc' = [disc EXCEPT ![field] = trim_end_matches_nul(bytes)]
                    /\ Goto(next)
               ELSE /\ Panic("FromUtf8Error")
                    /\ UNCHANGED disc
       \/ ReadFault(n) /\ UNCHANGED <<disc, consumed>>
    /\ UNCHANGED <<op, outFile, sent, rxHdr, answer, danswer, data_length,
                   data_received, data, sink, log>>

info_game_name == info_name("info_game_name", 32, "game_name", "info_internal_name")

info_internal_name == info_name("info_internal_name", 512, "internal_name", "info_disc")

\* a type byte outside the enumeration reported, the payload discarded and
\* the session continued with the teardown
info_disc_ReportOnly ==
    /\ pc = "info_disc"
    /\ Running
    /\ LET t == DiscTypes_from_u8(disc.disc_type_u8) IN
        IF t = "None"
        THEN Goto("d_send") /\ UNCHANGED disc
        ELSE /\ disc' = [disc EXCEPT !.disc_type = t]
             /\ Goto("info_output")
    /\ UNCHANGED <<op, outFile, sent, rx, rxHdr, answer, danswer, data_length,
                   data_received, consumed, data, sink, log>>

\* let disc = DiscInfo { disc_type: DiscTypes::from_u8(disc_type_u8).unwrap(), .. }
info_disc ==
    /\ pc = "info_disc"
    /\ Running
    /\ LET t == DiscTypes_from_u8(disc.disc_type_u8) IN
        IF t = "None"
        THEN Panic("disc type is None") /\ UNCHANGED disc
        ELSE /\ disc' = [disc EXCEPT !.disc_type = t]
             /\ Goto("info_output")
    /\ UNCHANGED <<op, outFile, sent, rx, rxHdr, answer, danswer, data_length,
                   data_received, consumed, data, sink, log>>

\* the destination of the record: all of its text arrived, or the writing
\* failed or stalled on the way and a part of the text is there
Output(kind, all) ==
    IF all
    THEN [kind |-> kind, data |-> <<disc>>, stored |-> <<disc>>, torn |-> <<>>]
    ELSE [kind |-> kind, data |-> <<>>, stored |-> <<>>, torn |-> <<disc>>]

\* stdout when a println! of the record failed or stalled: the lines before
\* are out, and the line being printed, which println! puts together in the
\* buffer of stdout and flushes with its newline, is in the buffer but for
\* the bytes the failed flush put out
Printing == [kind |-> "stdout", data |-> <<disc>>, stored |-> <<>>, torn |-> <<disc>>]

\* match i.filepath: three println! (each assembles its line in the buffer of
\* stdout, flushes it and panics when that fails), or File::create(p).unwrap()
\* and to_writer_pretty(file, &disc).unwrap(), which writes the text to the
\* file piece by piece; what was written before a failure stays.  Each of
\* these calls may also never return: the open of a path that is a FIFO
\* without reader, the write to a path or a stdout that takes no more bytes.
info_output ==
    /\ pc = "info_output"
    /\ Running
    /\ IF outFile
       THEN \/ /\ sink' = Output("file", TRUE)
               /\ Goto("d_send")
            \/ /\ sink' = Output("file", FALSE)
               /\ Panic("output")
            \/ /\ sink' = Output("file", FALSE)
               /\ Stall("info_output")
            \/ /\ Panic("create")
               /\ UNCHANGED sink
            \/ /\ Stall("info_output")
               /\ UNCHANGED sink
       ELSE \/ /\ sink' = Output("stdout", TRUE)
               /\ Goto("d_send")
            \/ /\ sink' = Printing
               /\ Panic(PrintPanic("stdout"))
            \/ /\ sink' = Printing
               /\ Stall("info_output")
    /\ UNCHANGED <<op, outFile, sent, rx, rxHdr, answer, danswer, data_length,
                   data_received, consumed, data, disc, log>>

\* ------------------------------------------------------------------------
\* BCA and Game arms: the output writer
\* ------------------------------------------------------------------------

\* let mut writer: Box<dyn Write> = if stdout { stdout() } else
\* { BufWriter::new(File::create(filepath).expect("Failed to open file")) };
\* File::create returns the file, or fails, or never returns (the path is a
\* FIFO that nobody opened for reading)
open_writer(at, next) ==
    /\ pc = at
    /\ Running
    /\ IF outFile
       THEN \/ /\ sink' = [NoSink EXCEPT !.kind = "file"]
               /\ Goto(next)
            \/ /\ Panic("Failed to open file")
               /\ UNCHANGED sink
            \/ /\ Stall(at)
               /\ UNCHANGED sink
       ELSE /\ sink' = [NoSink EXCEPT !.kind = "stdout"]
            /\ Goto(next)
    /\ UNCHANGED <<op, outFile, sent, rx, rxHdr, answer, danswer, data_length,
                   data_received, consumed, data, disc, log>>

\* a writer that starts over with every block
Written_Overwrite(d, block) == <<block>>

\* the writer's content after it accepted one more block; a block that
\* continues the previous one in the stream extends it
Written(d, block) ==
    IF d # <<>> /\ WAdd(d[Len(d)].off, d[Len(d)].len) = block.off
    THEN [d EXCEPT ![Len(d)].len = WAdd(@, block.len)]
    ELSE Append(d, block)

\* the stream offset at which the writer's content begins
Origin(s, block) == IF s.data = <<>> THEN block.off ELSE s.data[1].off

\* the stream offset right after a content that begins at offset o
EndOf(c, o) == IF c = <<>> THEN o ELSE WAdd(c[Len(c)].off, c[Len(c)].len)

\* the bytes of the stream from offset a up to offset b
Range(a, b) == IF a = b THEN <<>> ELSE <<[off |-> a, len |-> WSub(b, a)]>>

\* the number of bytes the writer holds in its buffer: accepted, not yet
\* handed to the file or to stdout
Unwritten(s, block) ==
    WInt(WSub(EndOf(s.data, Origin(s, block)), EndOf(s.stored, Origin(s, block))))

\* The numbers of bytes stdout's line buffer keeps of a block with a
\* newline: those after its last newline, when they are fewer than the
\* capacity (a longer tail is written through and nothing is kept, which
\* leaves the writer as the tail 0 does).
LineTails == 0 .. (STDOUT_CAPACITY - 1)

\* the numbers of bytes that may follow the last newline of a block
TailsOf(block) ==
    IF WLeq(W(STDOUT_CAPACITY), block.len) THEN LineTails
    ELSE 0 .. (WInt(block.len) - 1)

\* the outcome of a call on the writer: the writer afterwards, and whether
\* the call returned Ok
Result(s, ok) == [sink |-> s, ok |-> ok]

\* the writer whose buffer went out in full
Flushed(s) == [s EXCEPT !.stored = s.data]

\* The writer after a flush of its buffer that failed or stalled: any number
\* of the buffered bytes, short of all, went out, and the others are still in
\* the buffer.
Unflushed(s) ==
    [s EXCEPT !.torn = Range(EndOf(s.stored, s.data[1].off), EndOf(s.data, s.data[1].off))]

\* the writer after it took the m bytes that follow in the stream into its
\* buffer
Buffered(s, o, m) ==
    [s EXCEPT !.data = Written(s.data, [off |-> EndOf(s.data, o), len |-> W(m)])]

\* BufWriter::flush_buf: nothing to do with an empty buffer; otherwise the
\* buffered bytes go out, or the write fails and those not written stay
flush_buf(s) ==
    IF s.stored = s.data THEN {Result(s, TRUE)}
    ELSE {Result(Flushed(s), TRUE), Result(Unflushed(s), FALSE)}

\* write_all of the destination itself (the file, the stdout descriptor) with
\* the m bytes that follow in the stream, the buffer being empty: they go
\* out, or the write fails after any number of them, short of all, and the
\* writer holds none of them
inner_write_all(s, o, m) ==
    {Result(Flushed(Buffered(s, o, m)), TRUE),
     Result([s EXCEPT !.torn = Range(EndOf(s.data, o), WAdd(EndOf(s.data, o), W(m)))], FALSE)}

\* BufWriter::write_all of m bytes with a buffer of capacity cap holding p
\* bytes.  Fewer bytes than the spare capacity are copied to the buffer.
\* Otherwise the buffer is flushed first when the bytes exceed the spare
\* capacity, and the bytes are written to the destination when they are as
\* many as the capacity, and copied to the buffer when they are fewer.
BufWriter_write_all(cap, s, o, m) ==
    LET p == WInt(WSub(EndOf(s.data, o), EndOf(s.stored, o))) IN
    IF m < cap - p THEN {Result(Buffered(s, o, m), TRUE)}
    ELSE UNION {IF ~f.ok THEN {f}
                ELSE IF m >= cap THEN inner_write_all(f.sink, o, m)
                ELSE {Result(Buffered(f.sink, o, m), TRUE)} :
                f \in IF m > cap - p THEN flush_buf(s) ELSE {Result(s, TRUE)}}

\* a block without a newline, among the numbers of bytes after the last one
NoNewline == 0 - 1

\* LineWriter::write_all (the writer of stdout()) of n bytes, t of them after
\* the last newline.  A block without newline goes to the BufWriter inside.
\* Of a block with a newline, the lines (all up to the last newline) are
\* written to stdout directly when the buffer is empty, and are otherwise
\* handed to the BufWriter, which is then flushed; after that the tail is
\* handed to the BufWriter.
LineWriter_write_all(s, o, n, t) ==
    IF t = NoNewline THEN BufWriter_write_all(STDOUT_CAPACITY, s, o, n)
    ELSE LET lines == IF s.stored = s.data THEN inner_write_all(s, o, n - t)
                      ELSE UNION {IF w.ok THEN flush_buf(w.sink) ELSE {w} :
                                  w \in BufWriter_write_all(STDOUT_CAPACITY, s, o, n - t)}
         IN  UNION {IF f.ok /\ t > 0
                    THEN BufWriter_write_all(STDOUT_CAPACITY, f.sink, o, t)
                    ELSE {f} : f \in lines}

\* What a block may hold after its last newline, as far as the writer cares:
\* a file writer does not look; stdout's looks for the last newline.  The
\* data the peer sends decides.
Contents(s, block) ==
    IF s.kind = "stdout" THEN {NoNewline} \cup TailsOf(block) ELSE {NoNewline}

\* The outcomes of writer.write_all(block).  A file is written through
\* BufWriter::new, stdout() through its line writer.
WriteOutcomes(s, block) ==
    LET o == Origin(s, block)
        n == WInt(block.len)
    IN  UNION {IF s.kind = "stdout" THEN LineWriter_write_all(s, o, n, t)
               ELSE BufWriter_write_all(BUF_CAPACITY, s, o, n) :
               t \in Contents(s, block)}

\* a BufWriter with bytes in its buffer
HoldsBytes(s) == s.kind = "file" /\ s.stored # s.data

\* The writer goes out of scope and the drop returns.  Dropping a BufWriter
\* flushes its buffer and ignores the result: the buffered bytes reach the
\* file, or a part of them does and no error is reported.  Dropping stdout()
\* writes nothing: what its buffer holds stays there until the process exits.
DropWriter(s) == IF HoldsBytes(s) THEN {Flushed(s), Unflushed(s)} ELSE {s}

\* The end of an arm that owns a writer: the writer is dropped and main goes
\* on at `next`, or the flush made by the drop never returns (the file takes
\* no more bytes) and the process waits in it.
EndOfArm(s, next) ==
    \/ /\ sink' \in DropWriter(s)
       /\ Goto(next)
    \/ /\ HoldsBytes(s)
       /\ sink' = Unflushed(s)
       /\ Stall("drop")

\* writer.write_all(&data).unwrap(), and the drop of the writer when the arm
\* ends with it.  The block is accepted (buffered, or handed to the
\* destination), or handing bytes to the destination fails (Err, the unwrap
\* panics), or the destination takes no more bytes and the write waits.
write_all(at, next, drop) ==
    /\ pc = at
    /\ Running
    /\ \E r \in WriteOutcomes(sink, data) :
        \/ /\ r.ok
           /\ IF drop THEN EndOfArm(r.sink, next)
              ELSE sink' = r.sink /\ Goto(next)
        \/ /\ ~r.ok
           /\ sink' = r.sink
           /\ Panic("write_all")
        \/ /\ ~r.ok
           /\ sink' = r.sink
           /\ Stall(at)

bca_open == open_writer("bca_open", "bca_read")

\* let mut data = vec![0u8; 64]; stream.read_exact(&mut data).unwrap();
bca_read ==
    /\ pc = "bca_read"
    /\ Running
    /\ \/ /\ rx' = LogRead(rx, pc, BCA_SIZE, TRUE)
          /\ data' = [off |-> consumed, len |-> W(BCA_SIZE)]
          /\ consumed' = WAdd(consumed, W(BCA_SIZE))
          /\ Goto("bca_write")
       \/ ReadFault(BCA_SIZE) /\ UNCHANGED <<data, consumed>>
    /\ UNCHANGED <<op, outFile, sent, rxHdr, answer, danswer, data_length,
                   data_received, disc, sink, log>>

\* writer.write_all(&data).unwrap(); the arm ends and the writer is dropped
bca_write ==
    /\ write_all("bca_write", "d_send", TRUE)
    /\ UNCHANGED <<op, outFile, sent, rx, rxHdr, answer, danswer, data_length,
                   data_received, consumed, data, disc, log>>

\* ------------------------------------------------------------------------
\* Game arm: the length and the receive loop
\* ------------------------------------------------------------------------

game_open == open_writer("game_open", "game_len")

\* the 8 bytes a chunked peer sends first: the remaining length of its first
\* chunk of the sequence (100, 40), (60, 40), (20, 20)
FirstChunkRemaining == 100

\* declared lengths a peer announces in a session explored from its start
GameLengths ==
    {W(0), W(1), W(FirstChunkRemaining), W(BUF_CAPACITY), W(IO_SIZE - 1), W(IO_SIZE),
     W(IO_SIZE + 1), W(2 * IO_SIZE), W(MaxBlocks * IO_SIZE + 7)}

\* The declared lengths explored when the payload goes to stdout: at most one
\* full block and a byte.  After a full block stdout's buffer holds any of
\* 1024 counts, and a second full block makes as many of each.
LineLengths == {n \in GameLengths : WLeq(n, W(IO_SIZE + 1))}

\* let data_length = stream.read_be_to_u64().unwrap(); let mut data_received = 0u64;
game_len(inputs) ==
    /\ pc = "game_len"
    /\ Running
    /\ \/ \E b \in inputs :
            /\ rx' = LogRead(rx, pc, Len(b), TRUE)
            /\ data_length' = read_be_to_u64(b)
            /\ data_received' = W(0)
            /\ consumed' = WAdd(consumed, W(Len(b)))
            /\ Goto("game_loop")
       \/ ReadFault(8) /\ UNCHANGED <<data_length, data_received, consumed>>
    /\ UNCHANGED <<op, outFile, sent, rxHdr, answer, danswer, data, disc, sink, log>>

\* a loop test that leaves the loop one block early
LoopCondition_StopEarly(received, length) == WLess(WAdd(received, W(IO_SIZE)), length)

\* a loop test that also holds when nothing is left
LoopCondition_Inclusive(received, length) == WLeq(received, length)

\* while data_received < data_length
LoopCondition(received, length) == WLess(received, length)

\* if (data_length - data_received) < (IO_SIZE as u64): the last, shorter block
LastBlock(received, length) == WLess(WSub(length, received), W(IO_SIZE))

\* a loop without the shorter last block
BlockSize_AlwaysFull(received, length) == W(IO_SIZE)

\* the size of the buffer the iteration reads into and adds to the counter:
\* last_data (data_length - data_received bytes) or data (IO_SIZE bytes)
BlockSize(received, length) ==
    IF LastBlock(received, length) THEN WSub(length, received) ELSE W(IO_SIZE)

\* the loop test and, in the loop, stream.read_exact(..).unwrap() of the
\* block; when the test fails the arm ends and the writer is dropped
game_loop ==
    /\ pc = "game_loop"
    /\ Running
    /\ IF LoopCondition(data_received, data_length)
       THEN LET n == BlockSize(data_received, data_length) IN
            /\ \/ /\ rx' = LogRead(rx, pc, WInt(n), TRUE)
                  /\ data' = [off |-> consumed, len |-> n]
                  /\ consumed' = WAdd(consumed, n)
                  /\ Goto("game_write")
               \/ ReadFault(WInt(n)) /\ UNCHANGED <<data, consumed>>
            /\ UNCHANGED sink
       ELSE /\ EndOfArm(sink, "d_send")
            /\ UNCHANGED <<rx, data, consumed>>
    /\ UNCHANGED <<op, outFile, sent, rxHdr, answer, danswer, data_length,
                   data_received, disc, log>>

\* writer.write_all(..).unwrap(); data_received += the block's size (u64)
game_write ==
    /\ write_all("game_write", "game_loop", FALSE)
    /\ data_received' =
          IF pc' = "game_loop"
          THEN WrapU64(WAdd(data_received, BlockSize(data_received, data_length)))
          ELSE data_received
    /\ UNCHANGED <<op, outFile, sent, rx, rxHdr, answer, danswer, data_length,
                   consumed, data, disc, log>>

\* ------------------------------------------------------------------------
\* send_disconnect! and the end of the process
\* ------------------------------------------------------------------------

send_disconnect == send_command("d_send", "Disconnect", "d_magic")

\* a teardown that prints nothing
DisconnectMessage_Silent(a) == ""

\* match CommandAnswers::from_u32(..) { Some(OK) => {}, _ => eprintln!(..) }
DisconnectMessage(a) ==
    IF a = "OK" THEN "" ELSE "Weird response from Wii, disconnecting anyways"

disconnect_answer(inputs) ==
    /\ pc = "d_status"
    /\ Running
    /\ \/ \E b \in inputs :
            LET v == read_be_to_u32(b)
                a == CommandAnswers_from_u32(v)
            IN  /\ rx' = LogRead(rx, pc, Len(b), TRUE)
                /\ danswer' = v
                /\ Say(DisconnectMessage(a), "stderr", "d_say", "return")
       \/ ReadFault(4) /\ UNCHANGED <<danswer, log>>
    /\ UNCHANGED <<op, outFile, sent, rxHdr, answer, data_length,
                   data_received, consumed, data, disc, sink>>

\* main returns: the stream is dropped and the process goes to its exit
return ==
    /\ pc = "return"
    /\ Running
    /\ pc' = "exit"
    /\ closed' = TRUE
    /\ UNCHANGED <<op, outFile, blocked, panic, sent, rx, rxHdr, answer, danswer,
                   data_length, data_received, consumed, data, disc, sink, log>>

\* The exit of the process, after main returned or panicked: std flushes the
\* buffer of stdout and ignores the result.  The buffered bytes reach stdout
\* (those a failed write left in the buffer too: the write is made again),
\* or a part of them does, or stdout takes no more bytes and the process
\* waits in the flush; then the process ends, with status 0 after a return
\* and 101 after a panic.
exit ==
    /\ pc = "exit"
    /\ Running
    /\ LET ended == IF panic = "" THEN "done" ELSE "panicked" IN
        IF sink.kind = "stdout" /\ sink.stored # sink.data
        THEN \/ /\ sink' = [Flushed(sink) EXCEPT !.torn = <<>>]
                /\ Goto(ended)
             \/ /\ sink' = IF sink.torn = <<>> THEN Unflushed(sink) ELSE sink
                /\ Goto(ended)
             \/ /\ sink' = IF sink.torn = <<>> THEN Unflushed(sink) ELSE sink
                /\ Stall("exit")
        ELSE /\ Goto(ended)
             /\ UNCHANGED sink
    /\ UNCHANGED <<op, outFile, sent, rx, rxHdr, answer, danswer, data_length,
                   data_received, consumed, data, disc, log>>

\* ------------------------------------------------------------------------
\* What the peer sends in a session explored from its start
\* ------------------------------------------------------------------------

\* the expected magic, and the magic with its first or its last byte changed
SessionMagics ==
    {MAGIC_NUMBER, [MAGIC_NUMBER EXCEPT ![1] = 110], [MAGIC_NUMBER EXCEPT ![7] = 0]}

\* version 1 big-endian, version 1 little-endian, version 2
SessionVersions == {version_bytes, <<1, 0, 0, 0>>, <<0, 0, 0, 2>>}

\* every status of the enumeration, and values outside it: 4, 0x01000000
\* (1 with the bytes reversed) and 0xFFFFFFFB
SessionStatuses ==
    {BE32(CommandAnswers[a]) : a \in AnswerNames}
        \cup {BE32(U32(4)), <<1, 0, 0, 0>>, BE32(<<65535, 65531>>)}

\* the eight bytes of a declared length, by the destination of the payload
SessionLengths == {BE64(n) : n \in IF outFile THEN GameLengths ELSE LineLengths}

Next ==
    \/ connect
    \/ dispatch
    \/ check_magic("magic", "version", SessionMagics)
    \/ check_version("version", "status", SessionVersions)
    \/ match_answer(SessionStatuses)
    \/ info_type(TypeInputs)
    \/ info_game_name
    \/ info_internal_name
    \/ info_disc
    \/ info_output
    \/ bca_open
    \/ bca_read
    \/ bca_write
    \/ game_open
    \/ game_len(SessionLengths)
    \/ game_loop
    \/ game_write
    \/ send_disconnect
    \/ check_magic("d_magic", "d_version", SessionMagics)
    \/ check_version("d_version", "d_status", SessionVersions)
    \/ disconnect_answer(SessionStatuses)
    \/ return
    \/ exit

Spec == Init /\ [][Next]_vars

\* ------------------------------------------------------------------------
\* Header validation on every single-byte change of the header
\* ------------------------------------------------------------------------

\* the 11 bytes a valid response starts with
ExpectedHeader == MAGIC_NUMBER \o version_bytes

\* a byte sequence and every sequence that differs from it in one byte
SingleByteChanges(s) ==
    {s} \cup {[s EXCEPT ![i] = b] : i \in 1 .. Len(s), b \in Byte}

\* the session up to the validation of the first response header, the peer
\* answering any header that differs from the expected one in at most one byte
HeaderMagics == SingleByteChanges(MAGIC_NUMBER)

HeaderVersions == SingleByteChanges(version_bytes)

NextHeader ==
    \/ connect
    \/ dispatch
    \/ check_magic("magic", "version", HeaderMagics)
    \/ check_version("version", "status", HeaderVersions)
    \/ exit

SpecHeader == Init /\ [][NextHeader]_vars

\* ------------------------------------------------------------------------
\* The DiscInfo payload with every value of the type byte
\* ------------------------------------------------------------------------

InitDisc == Init /\ op = "Info"

DiscTypeBytes == Byte

DiscMagics == {MAGIC_NUMBER}

DiscVersions == {version_bytes}

DiscStatuses == {BE32(CommandAnswers.DiscInfo)}

\* a GetDiscInfo session answered DiscInfo, up to the Disconnect frame
NextDisc ==
    \/ connect
    \/ send_command("dispatch", "GetDiscInfo", "magic")
    \/ check_magic("magic", "version", DiscMagics)
    \/ check_version("version", "status", DiscVersions)
    \/ match_answer(DiscStatuses)
    \/ info_type(DiscTypeBytes)
    \/ info_game_name
    \/ info_internal_name
    \/ info_disc
    \/ info_output
    \/ send_disconnect
    \/ exit

SpecDisc == InitDisc /\ [][NextDisc]_vars

\* ------------------------------------------------------------------------
\* The receive loop over the whole u64 range of declared lengths
\* ------------------------------------------------------------------------

\* x * m for a wide x and a small m (at most 2^15), limb by limb
RECURSIVE WTimesCarry(_, _, _)
WTimesCarry(x, m, i) ==
    IF i > 5 THEN 0 ELSE (x[i] * m + WTimesCarry(x, m, i + 1)) \div LimbBase

WTimes(x, m) == [i \in Limbs |-> (x[i] * m + WTimesCarry(x, m, i + 1)) % LimbBase]

\* the reads of a Game session up to the loop
ReadsBeforeLoop ==
    << [what |-> "magic", n |-> 7, ok |-> TRUE, times |-> W(1)],
       [what |-> "version", n |-> 4, ok |-> TRUE, times |-> W(1)],
       [what |-> "status", n |-> 4, ok |-> TRUE, times |-> W(1)],
       [what |-> "game_len", n |-> 8, ok |-> TRUE, times |-> W(1)] >>

\* The state at the head of the receive loop after k full blocks of a declared
\* length were read and written (k = 0: the loop is entered), the writer
\* holding the last `kept` bytes in its buffer.
AtLoopHead(k, length, toFile, kept) ==
    /\ op = "Game"
    /\ outFile = toFile
    /\ pc = "game_loop"
    /\ blocked = FALSE
    /\ panic = ""
    /\ closed = FALSE
    /\ sent = <<Packet("DumpGame")>>
    /\ rx = IF k = W(0) THEN ReadsBeforeLoop
            ELSE Append(ReadsBeforeLoop,
                        [what |-> "game_loop", n |-> IO_SIZE, ok |-> TRUE, times |-> k])
    /\ rxHdr = ExpectedHeader
    /\ answer = CommandAnswers.Game
    /\ danswer = <<>>
    /\ data_length = length
    /\ data_received = WTimes(k, IO_SIZE)
    /\ consumed = WAdd(W(8), WTimes(k, IO_SIZE))
    /\ data = IF k = W(0) THEN NoData
              ELSE [off |-> WAdd(W(8), WTimes(WSub(k, W(1)), IO_SIZE)), len |-> W(IO_SIZE)]
    /\ disc = NoDiscInfo
    /\ sink = [kind |-> IF toFile THEN "file" ELSE "stdout",
               data |-> Range(W(8), WAdd(W(8), WTimes(k, IO_SIZE))),
               stored |-> Range(W(8), WSub(WAdd(W(8), WTimes(k, IO_SIZE)), W(kept))),
               torn |-> <<>>]
    /\ log = <<>>

\* numbers of full blocks in the declared length: few, 2^17, 2^33 and the
\* most a u64 holds, 2^49 - 1
TotalBlocks ==
    {W(MaxTailBlocks), <<0, 0, 0, 2, 0>>, <<0, 0, 2, 0, 0>>,
     <<0, 1, LimbBase - 1, LimbBase - 1, LimbBase - 1>>}

\* bytes of the declared length beyond its full blocks
TailBytes == {0, 1, IO_SIZE - 1}

\* the bytes a writer may hold in its buffer after full blocks: a file's
\* none (a full block is longer than the buffer), stdout's the tail of the
\* last block after its last newline
KeptAtLoopHead(k, toFile) == IF toFile \/ k = W(0) THEN {0} ELSE LineTails

\* What is left to receive at the loop heads explored, <<full blocks, bytes
\* beyond them>>: of a transfer to a file up to MaxTailBlocks blocks and a
\* tail; of a transfer to stdout, where every head comes with each of the
\* 1024 counts its buffer may hold, the last iteration of at most MaxLineLeft
\* bytes.
LeftAtHead(toFile) ==
    IF toFile THEN (0 .. MaxTailBlocks) \X TailBytes
    ELSE {0} \X (0 .. MaxLineLeft)

\* the loop heads of a transfer to a file (toFile) or to stdout
InitLoopTo(toFile) ==
    \E total \in TotalBlocks, left \in LeftAtHead(toFile) :
        \E kept \in KeptAtLoopHead(WSub(total, W(left[1])), toFile) :
            AtLoopHead(WSub(total, W(left[1])),
                       WAdd(WTimes(total, IO_SIZE), W(left[2])), toFile, kept)

\* the loop with little left to receive
InitLoop == \E toFile \in BOOLEAN : InitLoopTo(toFile)

\* Consistency of InitLoop with the session: every loop head reached from the
\* start of a session after full blocks only is the state AtLoopHead describes
LoopHeadAsDescribed ==
    (pc = "game_loop" /\ ~blocked /\ WInt(data_received) % IO_SIZE = 0) =>
        \E k \in 0 .. (MaxBlocks + 1) :
            \E kept \in KeptAtLoopHead(W(k), outFile) :
                AtLoopHead(W(k), data_length, outFile, kept)

NextLoop ==
    \/ game_loop
    \/ game_write
    \/ exit

SpecLoop == InitLoop /\ [][NextLoop]_vars

\* ------------------------------------------------------------------------
\* The session under fair scheduling
\* ------------------------------------------------------------------------

\* declared lengths a peer announces in a session explored from its start
\* under fairness: the blocks fit stdout's buffer
FairLengths == {BE64(W(0)), BE64(W(1)), BE64(W(FirstChunkRemaining))}

\* the start of a session, or the head of the receive loop of a Game session
\* to a file with a declared length up to 2^64 - 1 and few blocks left
InitFair == Init \/ InitLoopTo(TRUE)

NextFair ==
    \/ connect
    \/ dispatch
    \/ check_magic("magic", "version", SessionMagics)
    \/ check_version("version", "status", SessionVersions)
    \/ match_answer(SessionStatuses)
    \/ info_type(TypeInputs)
    \/ info_game_name
    \/ info_internal_name
    \/ info_disc
    \/ info_output
    \/ bca_open
    \/ bca_read
    \/ bca_write
    \/ game_open
    \/ game_len(FairLengths)
    \/ game_loop
    \/ game_write
    \/ send_disconnect
    \/ check_magic("d_magic", "d_version", SessionMagics)
    \/ check_version("d_version", "d_status", SessionVersions)
    \/ disconnect_answer(SessionStatuses)
    \/ return
    \/ exit

\* The process is the only thread: while it is not waiting in a call that
\* never returns (a read the peer does not complete, a write that stdout or
\* stderr does not take), it takes its next step.
SpecFair == InitFair /\ [][NextFair]_vars /\ WF_vars(NextFair)

\* ------------------------------------------------------------------------
\* Vocabulary of the properties
\* ------------------------------------------------------------------------

DisconnectPacket == Packet("Disconnect")

SentDisconnect == \E i \in 1 .. Len(sent) : sent[i] = DisconnectPacket

TeardownOps == {"EjectDisc", "Info", "BCA", "Game"}

IsPrefix(a, b) == Len(a) <= Len(b) /\ a = SubSeq(b, 1, Len(a))

\* the read the client requested last
LastRead == rx[Len(rx)]

LastReadAt(places) == rx # <<>> /\ LastRead.what \in places

\* the positions of the reads requested so far, in order
Whats == [i \in 1 .. Len(rx) |-> rx[i].what]

TeardownReads == <<"d_magic", "d_version", "d_status">>

HeaderReads == <<"magic", "version", "status">>

\* the header bytes read so far are not the beginning of a valid header
HeaderMismatch == rxHdr # <<>> /\ ~IsPrefix(rxHdr, ExpectedHeader)

TeardownWarning == "Weird response from Wii, disconnecting anyways"

\* the process panicked: it writes the panic message, is on its way out, or
\* has exited
Panicked == panic # ""

\* where a panicked process is
PanicPlaces == {"panic_message", "exit", "panicked"}

\* the process has exited
Ended == pc \in {"done", "panicked"}

\* a print macro panicked because its write failed
PrintFailure == panic \in {PrintPanic("stdout"), PrintPanic("stderr")}

\* the kinds of failure, by the unwrap, expect or unimplemented! that panicked
ConnectionFailure == panic = "Failed to connect to the Wii"

FramingFailure == panic = "WrongMagicNumber"

SocketFailure == panic \in {"read", "write"}

\* the output cannot be created or written
SinkFailure ==
    panic \in {"create", "output", "Failed to open file", "write_all"}
        \/ (panic = PrintPanic("stdout") /\ op = "Info")

\* a diagnostic line cannot be written
DiagnosticFailure == PrintFailure /\ ~SinkFailure

FatalFailure ==
    ConnectionFailure \/ FramingFailure \/ SocketFailure \/ SinkFailure \/ DiagnosticFailure

DecodeFailure == panic \in {"FromUtf8Error", "disc type is None"}

NotImplemented == panic = "not implemented"

\* the places where the process opens or writes the output, or writes to
\* stdout or stderr
WritePlaces ==
    {"say", "d_say", "info_output", "bca_open", "game_open", "bca_write", "game_write",
     "drop", "panic_message", "exit"}

\* the process waits in a read the peer does not complete
StalledRead == blocked /\ pc \notin WritePlaces

\* the process waits in an open or a write of its own that does not return
StalledWrite == blocked /\ pc \in WritePlaces

\* the payload announced by the answer to the command is consumed in full
PayloadDone ==
    CASE op = "Info" /\ answer = CommandAnswers.DiscInfo -> consumed = W(1 + 32 + 512)
      [] op = "BCA" /\ answer = CommandAnswers.BCA -> consumed = W(64)
      [] op = "Game" /\ answer = CommandAnswers.Game ->
            /\ consumed = WAdd(data_length, W(8))
            /\ data_received = data_length
      [] OTHER -> consumed = W(0)

\* ------------------------------------------------------------------------
\* C1
\* ------------------------------------------------------------------------

\* C1 as stated: in a session of EjectDisc, Info, BCA or Game no run in which
\* the status of the response was read ends without the Disconnect frame,
\* whatever the peer answered and sent after it; in a session of ExitProgram
\* or Shutdown no Disconnect frame is sent.
C1_DisconnectAfterEveryResponse ==
    /\ op \in {"ExitProgram", "Shutdown"} => ~SentDisconnect
    /\ (op \in TeardownOps /\ answer # <<>> /\ Ended) => SentDisconnect

\* the places of an arm of the match and of its payload, before send_disconnect!
ArmPlaces ==
    {"say", "info_type", "info_game_name", "info_internal_name", "info_disc",
     "info_output", "bca_open", "bca_read", "bca_write", "game_open", "game_len",
     "game_loop", "game_write", "drop", "d_send"}

\* the places of an arm once the payload is consumed in full
ArmPlacesAfterPayload ==
    {"say", "info_disc", "info_output", "bca_open", "game_open", "bca_write",
     "game_loop", "game_write", "drop", "d_send"}

\* the panic that ended an arm before send_disconnect!: a payload read that
\* failed, a payload that does not decode, an output that cannot be opened or
\* written, a diagnostic that cannot be printed
ArmFailure ==
    \/ panic = "read" /\ ~LastRead.ok /\ LastRead.what \in ArmPlaces
    \/ DecodeFailure /\ op = "Info" /\ answer = CommandAnswers.DiscInfo
    \/ SinkFailure /\ sink.kind # "none" /\ op \in {"Info", "BCA", "Game"}
    \/ panic \in {"create", "Failed to open file"} /\ sink.kind = "none" /\ outFile
    \/ DiagnosticFailure /\ log = <<>> /\ ArmMessage(op, CommandAnswers_from_u32(answer)) # ""

C1_Safe ==
    /\ op \in {"ExitProgram", "Shutdown"} => ~SentDisconnect
    /\ op \in TeardownOps =>
        /\ SentDisconnect =>
            /\ answer # <<>>
            /\ PayloadDone
            /\ sent = <<Packet(CommandOf(op)), DisconnectPacket>>
        /\ (pc \in {"d_magic", "d_version", "d_status", "d_say", "return", "done"}
               \/ (pc = "exit" /\ ~Panicked)) => SentDisconnect
        /\ (answer # <<>> /\ ~SentDisconnect) =>
              \/ /\ ~Panicked
                 /\ pc \in ArmPlaces
                 /\ PayloadDone => pc \in ArmPlacesAfterPayload
              \/ /\ Panicked
                 /\ pc \in PanicPlaces
                 /\ ArmFailure
        /\ pc = "say" => blocked

\* C1 amended: in a session whose operation is EjectDisc, Info (GetDiscInfo),
\* BCA or Game, whatever status the peer answered, the client hands a
\* Disconnect frame to the stream when the arm of the match ends: the step it
\* takes from the end of the match is that send, the frame follows the command
\* frame and the complete payload and is the second and last frame, and main
\* returns only after it.  A run in which the status was read and the frame
\* is not sent is still in the arm (at its payload, at its output, or waiting
\* in a call that does not return), or it panicked in the arm: a payload read
\* failed, the disc-info payload did not decode, the output could not be
\* opened or written, or the diagnostic of the arm could not be printed.  In
\* a session whose operation is ExitProgram or Shutdown no Disconnect frame
\* is ever sent.
C1_DisconnectAfterResponse ==
    /\ []C1_Safe
    /\ [][pc = "d_send" => SentDisconnect']_vars

C1_Witness ==
    /\ op = "Game"
    /\ answer = CommandAnswers.NoDisc
    /\ SentDisconnect
    /\ pc = "done"

\* ------------------------------------------------------------------------
\* C2
\* ------------------------------------------------------------------------

\* the three kinds of teardown failure
TeardownBadHeader == SentDisconnect /\ HeaderMismatch

TeardownBadStatus == danswer # <<>> /\ danswer # CommandAnswers.OK

TeardownNoReply ==
    LastReadAt({"d_magic", "d_version", "d_status"}) /\ ~LastRead.ok

\* C2 as stated: a teardown failure of any of the three kinds never turns the
\* outcome into a failure and never keeps the socket from being closed.
C2_TeardownFailureNeverFatal ==
    (TeardownBadHeader \/ TeardownBadStatus \/ TeardownNoReply)
        => ~Panicked /\ ~StalledRead

\* the warning of the teardown was printed
Warned == TeardownWarning \in {log[i] : i \in 1 .. Len(log)}

\* a panicked process: the socket is closed by the unwinding (the process may
\* wait before it, writing the panic message), and the exit status is 101
\* once the process has exited
PanickedWith(why) ==
    /\ panic = why
    /\ pc \in PanicPlaces
    /\ pc # "panic_message" => closed
    /\ pc = "panicked" => ExitStatus = 101

\* main returned or is about to
Returning == ~Panicked /\ pc \in {"return", "exit", "done"}

\* C2 amended: of the three kinds only a non-OK status is logged as a warning
\* and leaves the outcome a success (exit status 0, the socket closed when main
\* returns), and only when the warning can be written: when stderr refuses
\* it the process panics, when stderr does not take it the process waits in
\* the print with the socket open.  A wrong magic or version and a reply cut
\* short panic the process (exit status 101, the socket closed by the
\* unwinding); a reply that never arrives leaves the client blocked in the
\* read with the socket open.
C2_TeardownFailures ==
    /\ TeardownBadStatus =>
        \/ /\ log # <<>> /\ log[Len(log)] = TeardownWarning
           /\ Returning
           /\ pc = "done" => closed /\ ExitStatus = 0
        \/ ~Warned /\ PanickedWith(PrintPanic("stderr"))
        \/ ~Warned /\ ~Panicked /\ blocked /\ ~closed /\ pc = "d_say"
    /\ TeardownBadHeader =>
        /\ PanickedWith("WrongMagicNumber")
        /\ ~Warned
    /\ TeardownNoReply =>
        \/ PanickedWith("read")
        \/ ~Panicked /\ blocked /\ ~closed /\ pc \in {"d_magic", "d_version", "d_status"}

C2_Witness ==
    /\ TeardownBadHeader
    /\ LastReadAt({"d_version"})
    /\ pc = "panicked"

\* ------------------------------------------------------------------------
\* C3
\* ------------------------------------------------------------------------

\* C3 as stated: a reply to Disconnect with a valid header and a status other
\* than OK gets a warning logged and the session ends as it does after an OK
\* reply, which is with exit status 0.
C3_SameOutcomeAsOk ==
    (danswer # <<>> /\ Ended) =>
        /\ ExitStatus = 0
        /\ danswer # CommandAnswers.OK => Warned

C3_Safe ==
    danswer # <<>> =>
        /\ rxHdr = ExpectedHeader
        /\ LastReadAt({"d_status"})
        /\ pc = "done" => closed /\ ExitStatus = 0
        /\ IF danswer = CommandAnswers.OK
           THEN ~Warned /\ Returning
           ELSE \/ /\ log # <<>> /\ log[Len(log)] = TeardownWarning
                   /\ Returning
                \/ ~Warned /\ PanickedWith(PrintPanic("stderr"))
                \/ ~Warned /\ ~Panicked /\ blocked /\ ~closed /\ pc = "d_say"

\* C3 amended: once the status of the reply to Disconnect is read (magic and
\* version valid), the status read is the last read, and reading it changes
\* neither the frames sent, nor the payload consumed, nor the output.  After
\* a status other than OK the client prints a warning to stderr; when that
\* line is written the session is where it is after an OK reply: no panic,
\* main returns, exit status 0, the socket closed.  When writing the line
\* fails the process panics (exit status 101), and when stderr does not take
\* the line the process waits in the print and never ends: in these two cases
\* the outcome is not the one of an OK reply.
C3_NonOkDisconnectReply ==
    /\ []C3_Safe
    /\ [][danswer' # danswer =>
            /\ pc' \in {"return", "d_say", "exit", "panic_message"}
            /\ pc' = "return" <=> (danswer' = CommandAnswers.OK \/ log' # log)
            /\ sent' = sent
            /\ consumed' = consumed
            /\ sink' = sink]_vars

C3_Witness ==
    /\ danswer = <<65535, 65531>>
    /\ op = "BCA"
    /\ pc = "done"

\* ------------------------------------------------------------------------
\* C4
\* ------------------------------------------------------------------------

C4_Safe ==
    HeaderMismatch =>
        /\ PanickedWith("WrongMagicNumber")
        /\ ExitStatus \in {0 - 1, 101}
        /\ LastReadAt({"magic", "version", "d_magic", "d_version"})
        /\ LastRead.ok
        /\ ~IsPrefix(SubSeq(rxHdr, 1, Len(MAGIC_NUMBER)), MAGIC_NUMBER) =>
              Len(rxHdr) = Len(MAGIC_NUMBER) /\ LastReadAt({"magic", "d_magic"})
        /\ LastReadAt({"magic", "version"}) =>
              /\ answer = <<>>
              /\ consumed = W(0)
              /\ sink = NoSink
              /\ sent = <<Packet(CommandOf(op))>>
        /\ LastReadAt({"d_magic", "d_version"}) =>
              /\ danswer = <<>>
              /\ sent = <<Packet(CommandOf(op)), DisconnectPacket>>

\* C4: when the magic or the version of a response (to the command or to
\* Disconnect) differs from the expected bytes, the process panics at that
\* read: the mismatching read is the last read (a wrong magic: the version is
\* not read; no status, no payload), no frame is sent after it (no Disconnect
\* after a bad command reply, no second frame of any kind), the unwinding
\* closes the socket, and the outcome is a failure: the process never exits
\* with status 0, and when it exits its status is 101.  After the mismatch
\* the process only writes its panic message and flushes stdout on its way
\* out, and once it has exited it takes no further step.
C4_MismatchAborts ==
    /\ []C4_Safe
    /\ [][HeaderMismatch =>
            /\ sent' = sent /\ rx' = rx /\ consumed' = consumed
            /\ answer' = answer /\ danswer' = danswer
            /\ pc' \in {"panicked", "exit"}]_vars
    /\ [][pc # "panicked"]_vars

C4_Witness ==
    /\ HeaderMismatch
    /\ LastReadAt({"d_version"})
    /\ op = "EjectDisc"

\* ------------------------------------------------------------------------
\* C5 (specification SpecHeader)
\* ------------------------------------------------------------------------

\* C5: the accepted header is the 11 bytes "NETDUMP" 00 00 00 01 and nothing
\* else: the status is reached exactly with these bytes read, and every
\* header that differs in one byte of the magic (rejected after 7 bytes) or of
\* the version (rejected after 11 bytes) panics with WrongMagicNumber, and
\* nothing else does.
C5_HeaderAcceptance ==
    /\ ExpectedHeader = <<78, 69, 84, 68, 85, 77, 80, 0, 0, 0, 1>>
    /\ pc = "status" <=> rxHdr = ExpectedHeader
    /\ pc = "version" => rxHdr = MAGIC_NUMBER
    /\ HeaderMismatch <=> panic = "WrongMagicNumber"
    /\ HeaderMismatch => pc \in PanicPlaces
    /\ HeaderMismatch =>
        \/ /\ Len(rxHdr) = 7
           /\ \E i \in 1 .. 7 : \A j \in (1 .. 7) \ {i} : rxHdr[j] = MAGIC_NUMBER[j]
        \/ /\ Len(rxHdr) = 11
           /\ \E i \in 8 .. 11 : \A j \in (1 .. 11) \ {i} : rxHdr[j] = ExpectedHeader[j]
           /\ SubSeq(rxHdr, 1, 7) = MAGIC_NUMBER

C5_Witness ==
    /\ rxHdr = [ExpectedHeader EXCEPT ![11] = 0]
    /\ pc = "panicked"
    /\ panic = "WrongMagicNumber"

\* ------------------------------------------------------------------------
\* C6
\* ------------------------------------------------------------------------

\* the peer answered a domain error to the command
DomainError ==
    \/ answer = CommandAnswers.NoDisc /\ op \in TeardownOps
    \/ answer = CommandAnswers.CouldNotEject /\ op = "EjectDisc"
    \/ answer = CommandAnswers.UnknownDiscType /\ op \in {"Info", "BCA", "Game"}

\* the diagnostic of the arm a domain error selects
DomainMessage == ArmMessage(op, CommandAnswers_from_u32(answer))

\* C6 as stated: after a domain error the client reads no payload, opens and
\* writes no output, and still sends the Disconnect frame: no session that
\* was answered a domain error ends without that frame.
C6_DomainErrorStillDisconnects ==
    (DomainError /\ Ended) =>
        /\ consumed = W(0)
        /\ sink = NoSink
        /\ SentDisconnect

C6_Safe ==
    DomainError =>
        /\ consumed = W(0)
        /\ sink = NoSink
        /\ IsPrefix(Whats, HeaderReads \o TeardownReads)
        /\ \/ /\ log # <<>> /\ log[1] = DomainMessage
              /\ pc \in {"d_send", "d_magic", "d_version", "d_status", "d_say", "return"}
                        \cup PanicPlaces \cup {"done"}
              /\ pc # "d_send" => sent = <<Packet(CommandOf(op)), DisconnectPacket>>
              /\ Panicked => panic \in {"write", "read", "WrongMagicNumber", PrintPanic("stderr")}
              /\ pc \in {"return", "done"} => Whats = HeaderReads \o TeardownReads
           \/ /\ log = <<>>
              /\ PrintFailure
              /\ pc \in PanicPlaces
              /\ sent = <<Packet(CommandOf(op))>>
              /\ Whats = HeaderReads
           \/ /\ log = <<>>
              /\ ~Panicked /\ blocked /\ pc = "say"
              /\ sent = <<Packet(CommandOf(op))>>
              /\ Whats = HeaderReads

\* C6 amended: after a domain error (NoDisc to any disc operation,
\* CouldNotEject to EjectDisc, UnknownDiscType to Info, BCA or Game) the
\* client reads no payload byte and opens and writes no output; it prints the
\* diagnostic of the arm, and when that line is written it goes on to the
\* teardown: its next step sends the Disconnect frame, the step after that
\* requests the reply, and the only reads after the status are those of the
\* reply to Disconnect.  When the line cannot be written the process panics,
\* and when stdout or stderr does not take it the process waits in the
\* print: in both cases no Disconnect frame is sent and nothing more is read.
C6_DomainErrorNoPayload ==
    /\ []C6_Safe
    /\ [][DomainError /\ pc = "d_send" => SentDisconnect']_vars
    /\ [][DomainError /\ pc = "d_magic" => LastReadAt({"d_magic"})']_vars
    /\ [][DomainError' /\ ~DomainError =>
            (pc' = "d_send" <=> log' # log) /\ sent' = sent]_vars

C6_Witness ==
    /\ op = "Info"
    /\ answer = CommandAnswers.UnknownDiscType
    /\ pc = "done"

\* ------------------------------------------------------------------------
\* C7
\* ------------------------------------------------------------------------

\* the statuses that have an arm of their own in the operation's match
HandledAnswers(p) ==
    CASE p \in {"ExitProgram", "Shutdown"} -> {"OK"}
      [] p = "EjectDisc" -> {"OK", "NoDisc", "CouldNotEject", "ProtocolError"}
      [] p = "Info" -> {"DiscInfo", "ProtocolError", "NoDisc", "UnknownDiscType"}
      [] p = "BCA" -> {"BCA", "ProtocolError", "NoDisc", "UnknownDiscType"}
      [] p = "Game" -> {"Game", "ProtocolError", "NoDisc", "UnknownDiscType"}
      [] OTHER -> {}

UnexpectedAnswer ==
    /\ answer # <<>>
    /\ \A a \in HandledAnswers(op) : answer # CommandAnswers[a]

\* the diagnostic of the catch-all arm of the operation's match
WeirdResponse ==
    IF op \in {"Info", "BCA", "Game"} THEN "Weird response from Wii, disconnecting"
    ELSE "Weird response from Wii"

C7_Safe ==
    UnexpectedAnswer =>
        /\ consumed = W(0)
        /\ sink = NoSink
        /\ disc = NoDiscInfo
        /\ panic \notin {"FromUtf8Error", "disc type is None"}
        /\ log # <<>> => log[1] = WeirdResponse
        /\ log = <<>> =>
              /\ Whats = HeaderReads
              /\ sent = <<Packet(CommandOf(op))>>
              /\ \/ panic = PrintPanic("stderr") /\ pc \in PanicPlaces
                 \/ ~Panicked /\ blocked /\ pc = "say"
        /\ IsPrefix(Whats, HeaderReads \o TeardownReads)
        /\ (Panicked /\ log # <<>>) =>
              /\ SentDisconnect
              /\ panic \in {"read", "write", "WrongMagicNumber", PrintPanic("stderr")}
        /\ op \in {"ExitProgram", "Shutdown"} => Whats = HeaderReads

\* C7: a status with no arm of its own in the operation's match (a value
\* outside the enumeration, or a status of another command) selects the
\* catch-all arm and is never decoded as a payload: the arm prints the
\* "Weird response" diagnostic (the only panic at this point is the one of
\* that print when stderr refuses the line), no payload byte is read, no
\* output is opened or written, and every read after the status is a read of
\* the reply to Disconnect, beginning with its header (ExitProgram and
\* Shutdown read nothing more).
C7_UnexpectedStatus ==
    /\ []C7_Safe
    /\ [][answer' # answer => panic' \in {"", PrintPanic("stdout"), PrintPanic("stderr")}]_vars
    /\ [][UnexpectedAnswer /\ rx' # rx => LastReadAt({"d_magic", "d_version", "d_status"})']_vars
    /\ [][(UnexpectedAnswer /\ rx' # rx /\ LastReadAt({"status"})) =>
            LastReadAt({"d_magic"})']_vars

C7_Witness ==
    /\ op = "BCA"
    /\ answer = CommandAnswers.Game
    /\ pc = "done"

\* ------------------------------------------------------------------------
\* C8
\* ------------------------------------------------------------------------

IsBlockRead(e) == e.what = "game_loop" /\ e.ok

\* the completed payload reads of the receive loop, in order
BlockReads == SelectSeq(rx, IsBlockRead)

RECURSIVE ReadCount(_)
ReadCount(l) == IF l = <<>> THEN 0 ELSE WInt(l[Len(l)].times) + ReadCount(SubSeq(l, 1, Len(l) - 1))

\* the receive loop was left by its test
LoopFinished ==
    /\ op = "Game"
    /\ answer = CommandAnswers.Game
    /\ pc \in {"d_send", "d_magic", "d_version", "d_status", "return", "done"} \/ SentDisconnect

\* the reads of a payload of n bytes: n \div IO_SIZE reads of IO_SIZE bytes,
\* then one read of the rest when there is one
BlocksOf(n) ==
    (IF n \div IO_SIZE > 0
     THEN <<[what |-> "game_loop", n |-> IO_SIZE, ok |-> TRUE, times |-> W(n \div IO_SIZE)]>>
     ELSE <<>>)
    \o
    (IF n % IO_SIZE > 0
     THEN <<[what |-> "game_loop", n |-> n % IO_SIZE, ok |-> TRUE, times |-> W(1)]>>
     ELSE <<>>)

C9_Safe ==
    /\ WLeq(data_received, data_length)
    /\ WLeq(consumed, WAdd(data_length, W(8)))
    /\ pc \in {"game_loop", "drop", "d_send"} => consumed = WAdd(data_received, W(8))
    /\ pc = "game_write" =>
        /\ consumed = WAdd(WAdd(data_received, data.len), W(8))
        /\ WLess(W(0), data.len)
    /\ (LastReadAt({"game_loop"}) /\ pc \notin {"game_loop", "drop", "d_send"}) =>
        /\ LastRead.n > 0
        /\ WLeq(WAdd(data_received, W(LastRead.n)), data_length)

\* C9: in the receive loop, for declared lengths up to 2^64 - 1: the counter
\* never exceeds the declared length; at the loop head the payload bytes
\* consumed after the 8-byte length are exactly the counter; every read
\* requests at least one byte and no byte beyond the declared length; every
\* iteration increases the counter strictly (the u64 addition does not wrap),
\* and nothing else changes it.
C9_LoopInvariant ==
    /\ []C9_Safe
    /\ [][IF pc = "game_write" /\ pc' = "game_loop"
          THEN WLess(data_received, data_received')
          ELSE data_received' = data_received]_vars

C9_Witness ==
    /\ data_length = U64_MAX
    /\ data_received = U64_MAX
    /\ pc = "d_send"

\* ------------------------------------------------------------------------
\* C10
\* ------------------------------------------------------------------------

C10_Safe ==
    op = "Full" =>
        /\ sent = <<>>
        /\ rx = <<>>
        /\ consumed = W(0)
        /\ sink = NoSink
        /\ pc \in {"connect", "dispatch"} \cup PanicPlaces
        /\ pc \in PanicPlaces <=> Panicked
        /\ pc = "panicked" => ExitStatus = 101
        /\ ExitStatus # 0
        /\ closed => panic = "not implemented"

\* C10: a Full session sends no frame, reads no byte and writes no output, and
\* never ends with exit status 0: once connected, its one step in main is the
\* panic "not implemented", after which the process only goes out (exit
\* status 101).
C10_FullNotSupported ==
    /\ []C10_Safe
    /\ [][op = "Full" /\ pc = "dispatch" =>
            pc' \in {"exit", "panic_message"} /\ panic' = "not implemented"]_vars

C10_Witness ==
    /\ op = "Full"
    /\ pc = "panicked"
    /\ panic = "not implemented"
    /\ closed

\* ------------------------------------------------------------------------
\* C11
\* ------------------------------------------------------------------------

\* the two frames of an EjectDisc session, byte by byte
EjectDiscFrame == <<78, 69, 84, 68, 85, 77, 80, 0, 0, 0, 1, 0, 0, 0, 1>>

DisconnectFrame == <<78, 69, 84, 68, 85, 77, 80, 0, 0, 0, 1, 255, 255, 255, 255>>

\* the reads of one complete response without payload: 7 + 4 + 4 = 15 bytes
ResponseReads(places) ==
    << [what |-> places[1], n |-> 7, ok |-> TRUE, times |-> W(1)],
       [what |-> places[2], n |-> 4, ok |-> TRUE, times |-> W(1)],
       [what |-> places[3], n |-> 4, ok |-> TRUE, times |-> W(1)] >>

EjectOkOk ==
    op = "EjectDisc" /\ answer = CommandAnswers.OK /\ danswer = CommandAnswers.OK

C11_Safe ==
    EjectOkOk =>
        /\ sent = <<EjectDiscFrame, DisconnectFrame>>
        /\ rx = ResponseReads(HeaderReads) \o ResponseReads(TeardownReads)
        /\ rx[1].n + rx[2].n + rx[3].n = 15
        /\ rx[4].n + rx[5].n + rx[6].n = 15
        /\ consumed = W(0)
        /\ sink = NoSink
        /\ log = <<>>
        /\ Returning
        /\ ~blocked
        /\ pc # "return" => closed
        /\ pc = "done" => ExitStatus = 0

\* C11: an EjectDisc session in which the peer answers OK to the EjectDisc
\* frame and OK to the Disconnect frame has exactly this wire trace: the
\* EjectDisc frame is sent before anything is read, the 15 bytes of one
\* response are read (magic, version, status), the Disconnect frame is sent
\* next, the 15 bytes of one response are read, and the socket is closed when
\* main returns; no payload byte is read, nothing is printed as a diagnostic,
\* nothing keeps the process from exiting, and the exit status is 0.
C11_EjectEndToEnd ==
    /\ []C11_Safe
    /\ [][(op = "EjectDisc" /\ sent' # sent) =>
            \/ sent = <<>> /\ rx = <<>> /\ sent' = <<EjectDiscFrame>>
            \/ /\ Len(sent) = 1
               /\ Whats = HeaderReads
               /\ sent' = <<EjectDiscFrame, DisconnectFrame>>]_vars
    /\ [][(op = "EjectDisc" /\ rx' # rx) =>
            IF Len(rx) < 3 THEN Len(sent) = 1 ELSE Len(sent) = 2]_vars
    /\ [][(EjectOkOk' /\ closed' /\ ~closed) => pc = "return" /\ Len(rx) = 6]_vars

C11_Witness ==
    /\ EjectOkOk
    /\ pc = "done"
    /\ closed
    /\ Len(rx) = 6

\* ------------------------------------------------------------------------
\* C12
\* ------------------------------------------------------------------------

\* a GetDiscInfo session whose command was answered NoDisc
InfoNoDisc == op = "Info" /\ answer = CommandAnswers.NoDisc

\* C12 as stated: a GetDiscInfo session answered NoDisc reports it, sends the
\* Disconnect frame and ends with a nonzero exit status.
C12_NoDiscExitsNonzero ==
    (InfoNoDisc /\ Ended) =>
        /\ log # <<>> /\ log[1] = "No Disc in Drive, can't proceed"
        /\ SentDisconnect
        /\ ExitStatus # 0

C12_Safe ==
    InfoNoDisc =>
        /\ consumed = W(0)
        /\ sink = NoSink
        /\ \/ /\ log # <<>> /\ log[1] = "No Disc in Drive, can't proceed"
              /\ pc \in {"d_send", "d_magic", "d_version", "d_status", "d_say", "return"}
                        \cup PanicPlaces \cup {"done"}
              /\ pc # "d_send" => sent = <<Packet("GetDiscInfo"), DisconnectPacket>>
              /\ pc = "done" => ExitStatus = 0 /\ closed /\ danswer # <<>> /\ ~Panicked
              /\ Panicked =>
                    /\ pc \in PanicPlaces
                    /\ panic \in {"read", "write", "WrongMagicNumber", PrintPanic("stderr")}
                    /\ panic = "read" =>
                          LastReadAt({"d_magic", "d_version", "d_status"}) /\ ~LastRead.ok
                    /\ panic = "WrongMagicNumber" => TeardownBadHeader
                    /\ panic = PrintPanic("stderr") => TeardownBadStatus /\ ~Warned
           \/ /\ log = <<>>
              /\ PanickedWith(PrintPanic("stderr"))
              /\ sent = <<Packet("GetDiscInfo")>>
           \/ /\ log = <<>>
              /\ ~Panicked /\ blocked /\ pc = "say"
              /\ sent = <<Packet("GetDiscInfo")>>
        /\ pc = "panicked" => ExitStatus = 101

\* C12 amended: a GetDiscInfo session answered NoDisc reads no payload and
\* prints "No Disc in Drive, can't proceed"; when the line is written, its
\* next step sends the Disconnect frame, and when main returns the exit
\* status is 0 whatever the status of the reply to Disconnect: the domain
\* failure shows in the diagnostic only.  The exit status is nonzero (101)
\* only when the process panics: a diagnostic cannot be written to stderr
\* (the first one: no Disconnect frame is sent), the Disconnect frame cannot
\* be written, or its reply has a wrong magic or version or is cut short.
C12_NoDiscEndToEnd ==
    /\ []C12_Safe
    /\ [][InfoNoDisc /\ pc = "d_send" => sent' = <<Packet("GetDiscInfo"), DisconnectPacket>>]_vars
    /\ [][InfoNoDisc' /\ ~InfoNoDisc =>
            /\ pc' = "d_send" <=> log' = <<"No Disc in Drive, can't proceed">>
            /\ pc' # "d_send" => log' = <<>>
            /\ sent' = sent]_vars

C12_Witness ==
    /\ InfoNoDisc
    /\ pc = "done"
    /\ ExitStatus = 0
    /\ danswer = CommandAnswers.OK
    /\ SentDisconnect

\* ------------------------------------------------------------------------
\* C13
\* ------------------------------------------------------------------------

\* the type byte was read and is none of 0, 1, 2
BadTypeByte == disc.disc_type_u8 \notin {0 - 1, 0, 1, 2}

DiscInfoPayloadRead ==
    op = "Info" /\ answer = CommandAnswers.DiscInfo /\ consumed = W(1 + 32 + 512)

\* Output was lost and no error reported: the file writer was dropped with a
\* block in its buffer that did not reach the file in full, or the flush of
\* stdout at the exit of the process did not put out all that its buffer held
LostOutput ==
    /\ sink.kind \in {"file", "stdout"}
    /\ sink.torn # <<>>
    /\ ~SinkFailure
    /\ ~blocked

AllReadsOk == \A i \in 1 .. Len(rx) : rx[i].ok

\* C13 as stated: the exit status is nonzero exactly when a fatal handshake or
\* I/O failure occurred (a sink failure included), and zero in every other
\* run, a run whose disc-info payload fails to decode included.
C13_ExitStatusAsStated ==
    Ended =>
        /\ ExitStatus # 0 <=> (FatalFailure \/ LostOutput)
        /\ (BadTypeByte /\ DiscInfoPayloadRead) => ExitStatus = 0

C13_Safe ==
    /\ Ended => (ExitStatus # 0 <=> Panicked)
    /\ Panicked <=> (FatalFailure \/ DecodeFailure \/ NotImplemented)
    /\ ExitStatus \in {0 - 1, 0, 101}
    /\ Panicked => pc \in PanicPlaces
    /\ pc \in {"panic_message", "panicked"} => Panicked
    /\ ConnectionFailure => sent = <<>> /\ rx = <<>> /\ ~closed
    /\ FramingFailure <=> HeaderMismatch
    /\ panic = "read" <=> (~AllReadsOk /\ ~StalledRead)
    /\ panic = "write" => sent # <<>> /\ AllReadsOk
    /\ panic \in {"create", "Failed to open file"} => outFile /\ sink = NoSink
    /\ panic = "output" => op = "Info" /\ outFile /\ sink = Output("file", FALSE)
    /\ (panic = PrintPanic("stdout") /\ op = "Info") =>
          /\ ~outFile
          /\ sink \in {Printing, Output("stdout", TRUE)}
          /\ sink = Output("stdout", TRUE) => pc = "panicked"
    /\ panic = "write_all" =>
          /\ op \in {"BCA", "Game"}
          /\ sink.torn # <<>> \/ (pc = "panicked" /\ sink.kind = "stdout")
          /\ sink.torn = <<>> => sink.stored = sink.data /\ sink.data # <<>>
          /\ Len(sink.stored) <= 1
    /\ DiagnosticFailure =>
          /\ AllReadsOk
          /\ IF danswer = <<>>
             THEN /\ log = <<>>
                  /\ ArmMessage(op, CommandAnswers_from_u32(answer)) # ""
                  /\ panic = PrintPanic(ArmStream(op, CommandAnswers_from_u32(answer)))
                  /\ ~SentDisconnect
             ELSE /\ TeardownBadStatus
                  /\ ~Warned
                  /\ panic = PrintPanic("stderr")
    /\ NotImplemented <=> (op = "Full" /\ Panicked /\ ~ConnectionFailure)
    /\ panic = "disc type is None" => BadTypeByte /\ DiscInfoPayloadRead /\ sink = NoSink
    /\ panic = "FromUtf8Error" =>
          /\ LastReadAt({"info_game_name", "info_internal_name"})
          /\ LastRead.ok
          /\ sink = NoSink
    /\ (BadTypeByte /\ DiscInfoPayloadRead /\ pc # "info_disc") =>
          pc \in PanicPlaces /\ DecodeFailure /\ ExitStatus \in {0 - 1, 101}
    /\ pc = "done" =>
          /\ AllReadsOk
          /\ rxHdr = ExpectedHeader
          /\ answer # <<>>
          /\ closed
    /\ (Ended /\ (DomainError \/ UnexpectedAnswer \/ TeardownBadStatus \/ LostOutput)) =>
          (ExitStatus # 0 => (FramingFailure \/ SocketFailure \/ DiagnosticFailure))

\* C13 amended: the process ends with a nonzero exit status (101) exactly
\* when it panicked, and it panics on a connection failure, a magic or version
\* mismatch, a failed or short socket read, a failed socket write, a failure
\* to create the output, a write failure the writer or a print reports (a
\* diagnostic line that cannot be written included), a disc-info payload
\* that fails to decode (a type byte outside 0..2, a name field that is not
\* valid UTF-8), and on the operation Full.  It ends with 0 in every other
\* run that ends: after a domain error, an unexpected status or a non-OK
\* reply to Disconnect whose diagnostics were written, and also when output
\* is lost without a report: the buffered file writer cannot put out its
\* last block when it is dropped, or the flush of stdout at the exit of the
\* process fails (both errors are discarded).
C13_ExitStatus ==
    /\ []C13_Safe
    /\ [][pc' = "panicked" => panic' # "" /\ panic' = panic]_vars
    /\ [][pc' = "done" => pc = "exit" /\ panic = "" /\ AllReadsOk]_vars

C13_Witness ==
    /\ BadTypeByte
    /\ DiscInfoPayloadRead
    /\ panic = "disc type is None"
    /\ ExitStatus = 101

\* the case of a run that ends with status 0 although the file writer lost
\* its last block
C13_LostOutputCase ==
    LostOutput /\ pc = "done" /\ ExitStatus = 0 /\ op = "Game" /\ sink.kind = "file"

\* the case of a run that ends with status 0 although the 64 bytes held in
\* the buffer of stdout were not put out at the exit
C13_LostStdoutCase ==
    LostOutput /\ pc = "done" /\ ExitStatus = 0 /\ op = "BCA" /\ sink.kind = "stdout"

\* ------------------------------------------------------------------------
\* C14 (specification SpecDisc)
\* ------------------------------------------------------------------------

\* the reads of the DiscInfo payload, in order
DiscInfoReads ==
    << [what |-> "info_type", n |-> 1, ok |-> TRUE, times |-> W(1)],
       [what |-> "info_game_name", n |-> 32, ok |-> TRUE, times |-> W(1)],
       [what |-> "info_internal_name", n |-> 512, ok |-> TRUE, times |-> W(1)] >>

\* the disc type of a type byte, as the enumeration lists it
DiscTypeOf(b) ==
    CASE b = 0 -> "GC" [] b = 1 -> "WiiSingleSided" [] b = 2 -> "WiiDoubleSided"

\* the completed reads made after the status of the command's response
RECURSIVE PayloadBytes(_)
PayloadBytes(l) ==
    IF Len(l) <= 3 THEN 0
    ELSE (IF l[Len(l)].ok /\ l[Len(l)].what \in {"info_type", "info_game_name", "info_internal_name"}
          THEN l[Len(l)].n ELSE 0)
         + PayloadBytes(SubSeq(l, 1, Len(l) - 1))

C14_Safe ==
    (op = "Info" /\ answer = CommandAnswers.DiscInfo) =>
        /\ consumed = W(PayloadBytes(rx))
        /\ WLeq(consumed, W(545))
        /\ \A i \in 4 .. Len(rx) :
              (i <= 6 /\ rx[i].ok) => rx[i] = DiscInfoReads[i - 3]
        /\ \A i \in 4 .. Len(rx) :
              i <= 6 => rx[i].what = DiscInfoReads[i - 3].what /\ rx[i].n = DiscInfoReads[i - 3].n
        /\ SentDisconnect =>
              /\ consumed = W(545)
              /\ SubSeq(rx, 4, 6) = DiscInfoReads
              /\ disc.disc_type_u8 \in {0, 1, 2}
        /\ disc.disc_type # "None" =>
              /\ disc.disc_type_u8 \in {0, 1, 2}
              /\ disc.disc_type = DiscTypeOf(disc.disc_type_u8)
        /\ (pc \in {"info_output", "d_send", "d_magic"} \/ sink # NoSink) =>
              disc.disc_type # "None"
        /\ (BadTypeByte /\ DiscInfoPayloadRead /\ pc # "info_disc") =>
              /\ pc \in PanicPlaces
              /\ DecodeFailure
              /\ disc.disc_type = "None"
              /\ sink = NoSink
              /\ ~SentDisconnect

\* C14: after a DiscInfo status the client reads the type byte (1 byte), the
\* game name (32 bytes) and the internal name (512 bytes), in this order and
\* nothing else, so that 545 payload bytes are consumed when the Disconnect
\* frame is sent; the type byte 0 gives GC, 1 WiiSingleSided, 2
\* WiiDoubleSided, and each of the other 253 values makes the construction of
\* the record panic: no record, no output, never a disc type by default.
C14_DiscInfoPayload ==
    /\ []C14_Safe
    /\ [][pc = "info_disc" =>
            IF disc.disc_type_u8 \in {0, 1, 2}
            THEN pc' = "info_output" /\ disc'.disc_type = DiscTypeOf(disc.disc_type_u8)
            ELSE /\ pc' \in {"exit", "panic_message"}
                 /\ panic' = "disc type is None"
                 /\ disc' = disc /\ sink' = NoSink]_vars

C14_Witness ==
    /\ disc.disc_type_u8 = 2
    /\ disc.disc_type = "WiiDoubleSided"
    /\ consumed = W(545)
    /\ SubSeq(rx, 4, 6) = DiscInfoReads
    /\ SentDisconnect

\* the case of a type byte just outside the enumeration
C14_BadTypeCase ==
    /\ disc.disc_type_u8 = 3
    /\ pc = "panicked"
    /\ panic = "disc type is None"

\* ------------------------------------------------------------------------
\* C15
\* ------------------------------------------------------------------------

\* the name texts of NameTexts that are valid UTF-8, written out
ValidNames == {<<>>, <<77, 65, 82, 73, 79>>, <<77, 0, 65>>, <<195, 169>>}

\* a record whose three fields all decoded
Decoded(d) ==
    /\ d.disc_type_u8 \in {0, 1, 2}
    /\ d.disc_type = DiscTypeOf(d.disc_type_u8)
    /\ d.game_name \in ValidNames
    /\ d.internal_name \in ValidNames

\* the destination exists: the file was created, or a line went to stdout
OutputTouched == sink # NoSink

\* the runs without full success of the disc-info exchange
InfoFailed ==
    \/ HeaderMismatch /\ ~SentDisconnect
    \/ answer # <<>> /\ answer # CommandAnswers.DiscInfo
    \/ ~AllReadsOk /\ LastReadAt({"magic", "version", "status", "info_type",
                                   "info_game_name", "info_internal_name"})
    \/ DecodeFailure

C15_Safe ==
    op = "Info" =>
        /\ OutputTouched =>
              /\ answer = CommandAnswers.DiscInfo
              /\ rxHdr = ExpectedHeader \/ SentDisconnect
              /\ Len(rx) >= 6 /\ SubSeq(rx, 1, 3) = ResponseReads(HeaderReads)
              /\ SubSeq(rx, 4, 6) = DiscInfoReads
              /\ consumed = W(545)
              /\ Decoded(disc)
              /\ sink.kind = IF outFile THEN "file" ELSE "stdout"
              /\ sink \in {Output(sink.kind, TRUE), Output("file", FALSE), Printing}
              /\ sink.torn # <<>> =>
                    \/ pc \in PanicPlaces /\ panic = "output" /\ outFile
                    \/ pc \in PanicPlaces /\ panic = PrintPanic("stdout") /\ ~outFile
                    \/ pc = "info_output" /\ blocked /\ ~Panicked
                    \/ pc = "exit" /\ blocked /\ panic = PrintPanic("stdout") /\ ~outFile
              /\ pc = "info_output" => blocked
        /\ InfoFailed => ~OutputTouched
        /\ pc \in {"connect", "dispatch", "magic", "version", "status", "say", "info_type",
                   "info_game_name", "info_internal_name", "info_disc"} =>
              ~OutputTouched
        /\ (pc = "info_output" /\ ~blocked) => ~OutputTouched

C15_DecodeFailureCase ==
    /\ op = "Info"
    /\ outFile
    /\ panic = "FromUtf8Error"
    /\ LastReadAt({"info_internal_name"})
    /\ sink = NoSink

\* ------------------------------------------------------------------------
\* C16
\* ------------------------------------------------------------------------

\* the sizes of the reads requested so far after the status of the command's
\* response and before the teardown, a repeated read counted once
ReceiveReads == SelectSeq(rx, LAMBDA e : e.what \in {"game_len", "game_loop"})

ReceiveSizes == [i \in 1 .. Len(ReceiveReads) |-> ReceiveReads[i].n]

\* what a chunked receiver reads of the chunk sequence (100, 40), (60, 40),
\* (20, 20) after the status of the first frame: remaining length, chunk
\* length and chunk bytes, and before the second and third chunk the 7 + 4 + 4
\* bytes of a response frame
ChunkedSizes == <<8, 4, 40, 7, 4, 4, 8, 4, 40, 7, 4, 4, 8, 4, 20>>

\* where the bytes of the three chunks are in the stream, counted from the
\* end of the first status
ChunkExtents ==
    << [off |-> W(12), len |-> W(40)],
       [off |-> W(79), len |-> W(40)],
       [off |-> W(146), len |-> W(20)] >>

\* C16 as stated: the game-dump receiver reads a 4-byte chunk length after the
\* 8-byte remaining length before it reads any chunk byte, and for the chunk
\* sequence (100, 40), (60, 40), (20, 20) it validates a frame before each of
\* the 3 chunks, consumes 40, 40 and 20 chunk bytes, stops after the third
\* chunk and has written the 100 chunk bytes.
C16_ChunkedReceiver ==
    (op = "Game" /\ answer = CommandAnswers.Game) =>
        /\ \A i \in 1 .. Len(rx) :
              (rx[i].what = "game_loop" /\ i > 1) => rx[i - 1].n = 4
        /\ (data_length = W(FirstChunkRemaining) /\ LoopFinished) =>
              /\ ReceiveSizes = ChunkedSizes
              /\ sink.data = ChunkExtents

\* what the receiver does with the bytes of that chunk sequence: one frame,
\* one 8-byte length, one read of 100 bytes that follow it in the stream
C16_SingleLengthCase ==
    /\ op = "Game"
    /\ data_length = W(FirstChunkRemaining)
    /\ LoopFinished
    /\ ReceiveSizes = <<8, 100>>
    /\ sink.data = <<[off |-> W(8), len |-> W(100)]>>
    /\ SentDisconnect

\* ------------------------------------------------------------------------
\* C17
\* ------------------------------------------------------------------------

\* the number of payload bytes the status of the command's response announces
AnnouncedPayload ==
    CASE op = "Info" /\ answer = CommandAnswers.DiscInfo -> W(545)
      [] op = "BCA" /\ answer = CommandAnswers.BCA -> W(64)
      [] op = "Game" /\ answer = CommandAnswers.Game -> WAdd(W(8), data_length)
      [] OTHER -> W(0)

\* the response to the command was read in full: header, status and payload
ResponseConsumed ==
    /\ Len(rx) >= 3
    /\ SubSeq(rx, 1, 3) = ResponseReads(HeaderReads)
    /\ answer # <<>>
    /\ consumed = AnnouncedPayload
    /\ (op = "Game" /\ answer = CommandAnswers.Game) => Len(rx) >= 4 /\ rx[4].ok

C17_Safe ==
    /\ Len(sent) <= 2
    /\ op = "Full" => sent = <<>>
    /\ op # "Full" => IsPrefix(sent, <<Packet(CommandOf(op)), DisconnectPacket>>)
    /\ op \in {"ExitProgram", "Shutdown"} => Len(sent) <= 1
    /\ rx # <<>> => sent # <<>>
    /\ LastReadAt({"d_magic", "d_version", "d_status"}) => Len(sent) = 2
    /\ SentDisconnect =>
          /\ sent[2] = DisconnectPacket
          /\ ResponseConsumed
          /\ \A i \in 1 .. Len(rx) :
                ~rx[i].ok => rx[i].what \in {"d_magic", "d_version", "d_status"}
    /\ WLeq(consumed, AnnouncedPayload)

\* C17: the client sends at most two frames in a session: first the frame of
\* the operation's command, once, then at most once the Disconnect frame
\* (never after ExitProgram or Shutdown, none at all for Full).  A frame is
\* sent only when nothing is outstanding: the command frame before any read,
\* the Disconnect frame only after header, status and the whole payload the
\* status announces (545 bytes for DiscInfo, 64 for BCA, 8 + N for Game, none
\* otherwise) were read, every read having completed.  No frame is sent
\* twice, and no byte beyond the announced payload is read before the
\* Disconnect frame.
C17_OneRequestInFlight ==
    /\ []C17_Safe
    /\ [][sent' # sent =>
            /\ Len(sent') = Len(sent) + 1
            /\ SubSeq(sent', 1, Len(sent)) = sent
            /\ \A i \in 1 .. Len(sent) : sent[i] # sent'[Len(sent')]
            /\ AllReadsOk
            /\ IF sent = <<>> THEN rx = <<>> ELSE ResponseConsumed]_vars

C17_Witness ==
    /\ op = "Game"
    /\ answer = CommandAnswers.Game
    /\ data_length = W(IO_SIZE + 1)
    /\ consumed = W(IO_SIZE + 9)
    /\ sent = <<Packet("DumpGame"), DisconnectPacket>>
    /\ pc = "done"

\* ------------------------------------------------------------------------
\* C18 (specification SpecFair)
\* ------------------------------------------------------------------------

\* the socket is gone: dropped by the return of main or by a panic, or never
\* opened
SessionOver == closed \/ ConnectionFailure

\* C18 as stated: a session that takes no step any more has the socket gone
\* or waits in a read the peer does not complete; so, when the peer delivers
\* every byte the client waits for, the session reaches the closed state.
C18_ClosedUnlessPeerStops ==
    (blocked \/ Ended) => (StalledRead \/ SessionOver)

C18_Safe ==
    /\ StalledRead =>
          /\ ~closed
          /\ ~Panicked
          /\ rx # <<>> /\ ~LastRead.ok
          /\ pc = LastRead.what
          /\ pc \notin {"d_magic", "d_version", "d_status"} => ~SentDisconnect
          /\ Len(sent) = IF pc \in {"d_magic", "d_version", "d_status"} THEN 2 ELSE 1
    /\ StalledWrite =>
          /\ AllReadsOk \/ Panicked
          /\ pc \in {"say", "info_output", "bca_open", "game_open", "bca_write",
                     "game_write", "drop"} =>
                ~closed /\ ~Panicked /\ ~SentDisconnect
          /\ pc \in {"bca_open", "game_open"} => sink = NoSink /\ consumed = W(0)
          /\ pc = "drop" => PayloadDone /\ sink.kind = "file" /\ sink.torn # <<>>
          /\ pc = "d_say" => ~closed /\ ~Panicked /\ SentDisconnect /\ TeardownBadStatus
          /\ pc = "panic_message" => ~closed /\ Panicked
          /\ pc = "exit" => closed /\ sink.kind = "stdout" /\ sink.torn # <<>>
    /\ Ended => SessionOver
    /\ closed => pc \in {"exit", "done", "panicked"}
    /\ (~Ended /\ ~blocked) => ENABLED NextFair

\* C18 amended: every session ends with the socket gone, or waits in a read
\* the peer does not complete, or waits in an open or a write of its own
\* that the output file, stdout or stderr does not complete.  If the peer
\* delivers every byte the client asks for and none of these calls stalls,
\* the process exits with the socket closed,
\* whatever the statuses and the declared length are (the receive loop
\* included, up to 2^64 - 1 bytes).  A client that waits in a read takes no
\* step any more: the socket stays open, nothing is sent again, no Disconnect
\* frame follows, no timeout ends the wait.
C18_Termination ==
    /\ []C18_Safe
    /\ [][~blocked /\ ~Ended]_vars
    /\ [][StalledRead' => (pc' = pc /\ sent' = sent /\ closed' = closed)]_vars
    /\ <>(blocked \/ SessionOver)
    /\ ([]~StalledWrite) => <>(StalledRead \/ SessionOver)
    /\ ([]~blocked) => <>(Ended /\ SessionOver)

C18_Witness ==
    /\ blocked
    /\ op = "Game"
    /\ pc = "game_loop"
    /\ data_received = W(IO_SIZE)
    /\ ~closed
    /\ sent = <<Packet("DumpGame")>>

\* the case of a session with the largest declared length that ended
C18_LongestTransferCase ==
    /\ data_length = U64_MAX
    /\ data_received = U64_MAX
    /\ pc = "done"
    /\ closed

\* the case of a session whose peer delivered every byte and that waits, the
\* socket open, for stdout to take the diagnostic of the arm
C18_StalledPrintCase ==
    /\ op = "EjectDisc"
    /\ answer = CommandAnswers.NoDisc
    /\ AllReadsOk
    /\ blocked
    /\ pc = "say"
    /\ ~closed
    /\ ~SentDisconnect

\* ------------------------------------------------------------------------
\* C19
\* ------------------------------------------------------------------------

\* Consistency of write_all with the buffers: whenever a block is handed to
\* the file writer, nothing is left in its buffer (a block shorter than the
\* buffer is the last one); the buffer of stdout holds less than a line
BufferEmptyAtWrite ==
    (pc \in {"bca_write", "game_write"} /\ ~blocked) =>
        IF sink.kind = "file" THEN sink.stored = sink.data
        ELSE Unwritten(sink, data) \in LineTails

\* Consistency of a panic with the file writer: the unwinding drops the
\* writer, which has nothing in its buffer then
FileBufferEmptyAtPanic ==
    (Panicked /\ sink.kind = "file" /\ op \in {"BCA", "Game"} /\ sink.torn = <<>>) =>
        sink.stored = sink.data

\* the status that announces the payload of a dump operation
SuccessStatus == IF op = "BCA" THEN CommandAnswers.BCA ELSE CommandAnswers.Game

\* where the payload that goes to the sink begins, counted from the end of
\* the status: at once for BCA, after the 8-byte length for Game
PayloadStart == IF op = "BCA" THEN W(0) ELSE W(8)

\* content that is the first bytes of the payload consumed so far
PayloadPrefix(d) ==
    \/ d = <<>>
    \/ /\ Len(d) = 1
       /\ d[1].off = PayloadStart
       /\ WLess(W(0), d[1].len)
       /\ WLeq(WAdd(d[1].off, d[1].len), consumed)

\* content b is content a with bytes added at its end, or a itself
Extends(a, b) ==
    \/ a = <<>>
    \/ /\ Len(a) = 1 /\ Len(b) = 1
       /\ b[1].off = a[1].off
       /\ WLeq(a[1].len, b[1].len)

\* the bytes of a write that failed or stalled follow, in the stream, what
\* reached the destination before, and were consumed from the socket
TornFollows(s) ==
    \/ s.torn = <<>>
    \/ /\ Len(s.torn) = 1
       /\ s.torn[1].off = EndOf(s.stored, PayloadStart)
       /\ WLess(W(0), s.torn[1].len)
       /\ WLeq(WAdd(s.torn[1].off, s.torn[1].len), consumed)

\* the transfer failed after the sink was opened and before the teardown
FailedMidStream ==
    /\ sink # NoSink
    /\ pc \in PanicPlaces
    /\ \/ panic = "write_all"
       \/ panic = "read" /\ LastReadAt({"bca_read", "game_len", "game_loop"})

C19_Safe ==
    op \in {"BCA", "Game"} =>
        /\ sink # NoSink =>
              /\ answer = SuccessStatus
              /\ SubSeq(rx, 1, 3) = ResponseReads(HeaderReads)
              /\ sink.kind = IF outFile THEN "file" ELSE "stdout"
        /\ consumed # W(0) => sink # NoSink
        /\ LastReadAt({"bca_read", "game_len", "game_loop"}) => sink # NoSink
        /\ pc \in {"bca_open", "game_open"} => sink = NoSink /\ consumed = W(0)
        /\ PayloadPrefix(sink.data)
        /\ PayloadPrefix(sink.stored)
        /\ TornFollows(sink)
        /\ Extends(sink.stored, sink.data)
        /\ sink.kind = "file" => Unwritten(sink, data) < BUF_CAPACITY
        /\ sink.kind = "stdout" => Unwritten(sink, data) <= STDOUT_CAPACITY
        /\ FailedMidStream =>
              /\ ~SentDisconnect
              /\ sent = <<Packet(CommandOf(op))>>
              /\ PayloadPrefix(sink.stored)

====
